---------------------------- MODULE Spec2Model ----------------------------
(***************************************************************************)
(* A model of pymtpfs: the FUSE operation handlers of MTPFS (pymtpfs.py),  *)
(* the object tree, path cache and recovery logic of MTP (mtp.py).         *)
(*                                                                         *)
(* Paths are sequences of name components: <<>> is "/", <<"S">> is the     *)
(* storage "/S", <<"S","a">> is "/S/a".  The MTP device is the environment:*)
(* a set of objects (id, parent id, name, folder flag, bytes) that the     *)
(* native library calls list, fetch, send, create and delete.              *)
(***************************************************************************)
EXTENDS Integers, Sequences, FiniteSets, TLC

(***************************************************************************)
(* Bounds of the model.                                                    *)
(***************************************************************************)
MaxId == 4          \* object ids the device hands out: 1..MaxId
MaxLen == 1         \* longest byte string written or stored
MaxScratch == 2     \* scratch files mkstemp creates in one behaviour
MaxFaults == 3      \* transport faults (failed native calls, alarms) injected

Names == {"a", "b"}
Storage == "S"
Bytes == {1, 2}
RootPath == <<Storage>>

\* Byte strings of length 0..MaxLen
Contents == UNION {[1..n -> Bytes] : n \in 0..MaxLen}

\* Paths handed to the handlers: "/", "/S", "/S/x", "/S/x/y", and "/X" (no such storage)
StoragePaths == {RootPath} \cup {<<Storage, x>> : x \in Names}
                   \cup {<<Storage, x, y>> : x \in Names, y \in Names}
AllPaths == {<< >>, <<"X">>} \cup StoragePaths

\* os.path.split
DirName(p) == IF Len(p) = 0 THEN << >> ELSE SubSeq(p, 1, Len(p) - 1)
BaseName(p) == IF Len(p) = 0 THEN "" ELSE p[Len(p)]

VARIABLES
    dev,          \* the device's objects: id -> [parent, name, isdir, data]
    nextId,       \* next object id the device assigns
    faults,       \* transport faults the environment may still inject
    flaky,        \* the device may stop answering (the liveness probe may fail)
    open_device,  \* MTP.open_device is not None
    nativeOpen,   \* native device handles opened and not released
    devices,      \* MTP.devices is a non-empty list (FALSE: None or empty)
    tree,         \* storage S: root folder object and the path cache `contents`
    openfiles,    \* MTPFS.openfiles: fd -> [path, mtp_path, readonly]
    created,      \* MTPFS.created: paths holding a placeholder
    fds,          \* open OS file descriptors: fd -> scratch file
    scratch,      \* scratch files that exist: scratch file -> bytes
    nextScratch,  \* next scratch file name
    call,         \* the handler in progress (a bulk transfer), or idle
    lastOp,       \* the handler call that returned last
    rt,           \* how far the calls made so far follow create, write, release, open
    lru,          \* an LRU object (lru.py): [size, map], map oldest entry first
    tempdir,      \* MTPFS.tempdir, the scratch directory, exists
    STOPPED,      \* the global STOPPED
    recency       \* the keys of the LRU object, least recently used first

vars == <<dev, nextId, faults, flaky, open_device, nativeOpen, devices, tree,
          openfiles, created, fds, scratch, nextScratch, call, lastOp, rt, lru,
          tempdir, STOPPED, recency>>

-----------------------------------------------------------------------------
(***************************************************************************)
(* The device (environment): what the native library calls do.             *)
(***************************************************************************)
RECURSIVE SortedIds(_)
SortedIds(S) ==
    IF S = {} THEN << >>
    ELSE LET m == CHOOSE x \in S : \A y \in S : x <= y
         IN <<m>> \o SortedIds(S \ {m})

Children(d, pid) == {i \in DOMAIN d : d[i].parent = pid}

RECURSIVE Descendants(_, _)
Descendants(d, id) ==
    {id} \cup UNION {Descendants(d, c) : c \in Children(d, id)}

\* LIBMTP_Delete_Object on a live device: the object and all below it go
DevDelete(d, id) ==
    LET gone == Descendants(d, id)
    IN [i \in (DOMAIN d) \ gone |-> d[i]]

\* the object a path names on the device (0: none); the root folder is id 0
RECURSIVE DevLookup(_, _, _)
DevLookup(d, pid, comps) ==
    IF comps = << >> THEN {pid}
    ELSE UNION {IF d[c].name = Head(comps)
                THEN (IF Tail(comps) = << >> THEN {c}
                      ELSE IF d[c].isdir THEN DevLookup(d, c, Tail(comps)) ELSE {})
                ELSE {} : c \in Children(d, pid)}

DevObjects(d, p) ==
    IF Len(p) = 0 \/ p[1] # Storage THEN {} ELSE DevLookup(d, 0, Tail(p))

-----------------------------------------------------------------------------
(***************************************************************************)
(* Object tree and path cache (mtp.py).  A folder object is                *)
(*   [id, must_refresh, listed, dirs, files]                               *)
(* dirs is the list of MTPFolder children [name, id] as last listed, files *)
(* the list of MTPFile children [name, id, len].  `listed` records that    *)
(* the lists were read from the device since must_refresh was last set.    *)
(* tree maps the root path and every key of `contents` to its object.      *)
(***************************************************************************)
NewFolder(id) ==
    [id |-> id, must_refresh |-> TRUE, listed |-> FALSE,
     dirs |-> << >>, files |-> << >>]

\* MTPFolder.refresh, ids: the children LIBMTP_Get_Files_And_Folders lists
DirList(d, dl) == [k \in 1..Len(dl) |-> [name |-> d[dl[k]].name, id |-> dl[k]]]

FileList(d, fl) ==
    [k \in 1..Len(fl) |-> [name |-> d[fl[k]].name, id |-> fl[k], len |-> Len(d[fl[k]].data)]]

Relist(f, d, ids) ==
    IF ids = << >>
    THEN [id |-> f.id, must_refresh |-> f.must_refresh, listed |-> TRUE,
          dirs |-> << >>, files |-> << >>]
    ELSE [id |-> f.id, must_refresh |-> FALSE, listed |-> TRUE,
          dirs |-> DirList(d, SelectSeq(ids, LAMBDA i : d[i].isdir)),
          files |-> FileList(d, SelectSeq(ids, LAMBDA i : ~d[i].isdir))]

FolderRefresh(f, d) == Relist(f, d, SortedIds(Children(d, f.id)))

Refresh(t, d, p) == [q \in DOMAIN t |-> IF q = p THEN FolderRefresh(t[p], d) ELSE t[q]]

RefreshIfNeeded(t, d, p) == IF t[p].must_refresh THEN Refresh(t, d, p) ELSE t

\* must_refresh = True on the folder object at p
MarkRefresh(t, p) ==
    [q \in DOMAIN t |->
        IF q = p
        THEN [id |-> t[p].id, must_refresh |-> TRUE, listed |-> FALSE,
              dirs |-> t[p].dirs, files |-> t[p].files]
        ELSE t[q]]

\* entries returned by path resolution
NoEntry == [k |-> "none", p |-> << >>, id |-> 0, len |-> 0]
VRootEntry == [k |-> "vroot", p |-> << >>, id |-> -3, len |-> 0]
DirEntry(t, p) == [k |-> "dir", p |-> p, id |-> t[p].id, len |-> 0]
FileEntry(p, f) == [k |-> "file", p |-> p, id |-> f.id, len |-> f.len]

IsDirectory(en) == en.k \in {"dir", "vroot"}

FunPut(f, k, v) == [x \in (DOMAIN f) \cup {k} |-> IF x = k THEN v ELSE f[x]]
FunDel(f, k) == [x \in (DOMAIN f) \ {k} |-> f[x]]

\* first index of a list element with the name, 0 if none
FirstNamed(list, name) ==
    IF \A k \in 1..Len(list) : list[k].name # name THEN 0
    ELSE CHOOSE k \in 1..Len(list) :
            list[k].name = name /\ \A j \in 1..(k - 1) : list[j].name # name

\* MTPFolder.find_file
FileAt(t, p, name, k) ==
    IF k = 0 THEN NoEntry ELSE FileEntry(Append(p, name), t[p].files[k])

FindFile(t, p, name) == FileAt(t, p, name, FirstNamed(t[p].files, name))


\* MTPFolder.find_directory found the folder object id in the parent's list and
\* __find_entry puts it in `contents`: the object was made by the parent's
\* listing and is listed itself now (rmdir, the one handler that takes a folder
\* out of `contents`, lists the parent again first, which makes new objects)
CacheFolder(t, d, path, id) ==
    RefreshIfNeeded(FunPut(t, path, FolderRefresh(NewFolder(id), d)), d, path)

\* MTPStorage.__find_entry: result [t, en, stale]; stale: a child list was
\* consulted that was not listed since must_refresh was set
RECURSIVE FindEntryRec(_, _, _, _, _)
FindMiss(t, d, ep, comps, stale, k) ==
    IF k # 0
    THEN FindEntryRec(CacheFolder(t, d, Append(ep, Head(comps)), t[ep].dirs[k].id),
                      d, Append(ep, Head(comps)), Tail(comps), stale)
    ELSE [t |-> t, en |-> FindFile(t, ep, Head(comps)), stale |-> stale]

FindEntryRec(t, d, ep, comps, stale) ==
    IF comps = << >> THEN [t |-> t, en |-> DirEntry(t, ep), stale |-> stale]
    ELSE IF Append(ep, Head(comps)) \in DOMAIN t
    THEN FindEntryRec(RefreshIfNeeded(t, d, Append(ep, Head(comps))), d,
                      Append(ep, Head(comps)), Tail(comps), stale)
    ELSE FindMiss(t, d, ep, comps, stale \/ ~t[ep].listed,
                  FirstNamed(t[ep].dirs, Head(comps)))

\* MTPStorage.find_entry
Found(t, path) == [t |-> t, en |-> DirEntry(t, path), stale |-> FALSE]

FindEntry(t, d, path) ==
    IF path \in DOMAIN t
    THEN Found(RefreshIfNeeded(t, d, path), path)
    ELSE FindEntryRec(t, d, RootPath, Tail(path), FALSE)

\* MTP.get_storage: "none", "vroot" or "storage"
GetStorage(od, path) ==
    IF ~od THEN "none"
    ELSE IF path = << >> THEN "vroot"
    ELSE IF path[1] = Storage THEN "storage" ELSE "none"

\* MTP.get_path: result [t, en, stale, exc]; exc: ValueError raised
Resolved(r, d) ==
    [t |-> IF r.en.k = "dir" THEN RefreshIfNeeded(r.t, d, r.en.p) ELSE r.t,
     en |-> r.en, stale |-> r.stale, exc |-> FALSE]

GetPathIn(s, t, d, path) ==
    IF s = "none" THEN [t |-> t, en |-> NoEntry, stale |-> FALSE, exc |-> TRUE]
    ELSE IF s = "vroot" THEN [t |-> t, en |-> VRootEntry, stale |-> FALSE, exc |-> FALSE]
    ELSE Resolved(FindEntry(t, d, path), d)

GetPath(t, d, od, path) == GetPathIn(GetStorage(od, path), t, d, path)

\* MTPStorage.__init__ for a device storage: the root folder, listed, cached
InitTree(d) == [q \in {RootPath} |-> FolderRefresh(NewFolder(0), d)]
NoTree == [q \in {} |-> NewFolder(0)]


\* MTP.remove_path / MTPStorage.remove_entry: the key leaves `contents`
\* (the root folder object stays reachable as MTPStorage.root)
RemovePath(t, od, p) ==
    IF GetStorage(od, p) # "storage" \/ p = RootPath \/ p \notin DOMAIN t THEN t
    ELSE [q \in (DOMAIN t) \ {p} |-> t[q]]

\* MTP.close
CloseTree == NoTree
CloseOpenDevice == FALSE
CloseNativeKeep(od, n) == n

CloseNative(od, n) == IF od THEN n - 1 ELSE n

-----------------------------------------------------------------------------
(***************************************************************************)
(* Scratch files and file descriptors (pymtpfs.py).                        *)
(***************************************************************************)
\* the descriptor the OS hands out next: the lowest one not open
LowestFreeFd(f) == CHOOSE n \in 1..(Cardinality(DOMAIN f) + 1) :
                      n \notin DOMAIN f /\ \A m \in 1..(n - 1) : m \in DOMAIN f


\* bytes of c with data written at offset off (a gap is filled with zeros)
WriteAt(c, off, data) ==
    LET n == IF data # << >> /\ off + Len(data) > Len(c) THEN off + Len(data) ELSE Len(c)
    IN [k \in 1..n |-> IF k > off /\ k <= off + Len(data) THEN data[k - off]
                       ELSE IF k <= Len(c) THEN c[k] ELSE 0]

\* os.read(fh, size) after lseek(fh, offset)
ReadAt(c, off, size) ==
    IF off >= Len(c) THEN << >>
    ELSE SubSeq(c, off + 1, IF off + size > Len(c) THEN Len(c) ELSE off + size)

\* what a handler call returned: the handler, its result and the transfer's log;
\* path and fh are recorded for the handlers that change files or the device
NoOp == [op |-> "none", path |-> << >>, newpath |-> << >>, mode |-> 0, fh |-> 0,
         res |-> "", log |-> << >>]
Idle == [op |-> "idle"]

Ret(op, path, fh, res) == [NoOp EXCEPT !.op = op, !.path = path, !.fh = fh, !.res = res]

\* MTPEntry.get_attributes as getattr returns it: st_mode's type and st_size
Attr(en) ==
    [res |-> "OK",
     kind |-> IF IsDirectory(en) THEN "dir" ELSE "file",
     size |-> IF IsDirectory(en) THEN 0 ELSE en.len]

Fail(res) == [res |-> res, kind |-> "", size |-> 0]

\* The calls that returned last, as far as they are a prefix of the sequence
\*   create(path) -> fh, write(B, fh), release(fh), open(path, read-only) -> fh:
\* stage counts the calls of the sequence that returned success, one after the
\* other with no other call in between; B is what the scratch file of the handle
\* holds after the write (the bytes written, for a write at offset 0 to the
\* empty scratch file that create made).
RtNone == [stage |-> 0, path |-> << >>, fh |-> 0, B |-> << >>]

Track ==
    rt' = IF call' # Idle THEN rt
          ELSE LET o == lastOp'
               IN IF o.res # "OK" THEN RtNone
                  ELSE IF o.op = "create"
                  THEN [stage |-> 1, path |-> o.path, fh |-> o.fh, B |-> << >>]
                  ELSE IF o.op = "write" /\ rt.stage = 1 /\ o.fh = rt.fh
                  THEN [rt EXCEPT !.stage = 2, !.B = scratch'[fds'[o.fh]]]
                  ELSE IF o.op = "release" /\ rt.stage = 2 /\ o.fh = rt.fh
                  THEN [rt EXCEPT !.stage = 3]
                  ELSE IF o.op = "open" /\ rt.stage = 3 /\ o.path = rt.path
                          /\ openfiles'[o.fh].readonly
                  THEN [rt EXCEPT !.stage = 4, !.fh = o.fh]
                  ELSE RtNone

Placeholder(p) == [k |-> "file", p |-> p, id |-> -9999, len |-> 0]

-----------------------------------------------------------------------------
(***************************************************************************)
(* class LRU (lru.py): an OrderedDict `map`, oldest entry first, and the   *)
(* capacity `size`.  Each method is [lru, ret, evicted]: the object after  *)
(* the call, what the call returned ("KeyError" when it raised) and the    *)
(* keys the call evicted.                                                  *)
(***************************************************************************)
\* self.created = LRU(1000)
CreatedSize == 1000

LruNew(size) == [size |-> size, map |-> << >>]

LruKeySet(l) == {l.map[i].k : i \in 1..Len(l.map)}

LruValue(m, k) == m[CHOOSE i \in 1..Len(m) : m[i].k = k].v

\* OrderedDict.pop(k) on a present key
LruWithout(m, k) == SelectSeq(m, LAMBDA e : e.k # k)

LruWith(l, m) == [size |-> l.size, map |-> m]

LruNone == "None"

\* a __setitem__ that never evicts
LruSetItemKeep(l, k, v) ==
    [lru |-> LruWith(l, Append(LruWithout(l.map, k), [k |-> k, v |-> v])),
     ret |-> LruNone, evicted |-> << >>]

\* LRU.__setitem__
LruSetItem(l, k, v) ==
    IF k \in LruKeySet(l)
    THEN [lru |-> LruWith(l, Append(LruWithout(l.map, k), [k |-> k, v |-> v])),
          ret |-> LruNone, evicted |-> << >>]
    ELSE IF Len(l.map) >= l.size
    THEN [lru |-> LruWith(l, Append(Tail(l.map), [k |-> k, v |-> v])),
          ret |-> LruNone, evicted |-> <<Head(l.map).k>>]
    ELSE [lru |-> LruWith(l, Append(l.map, [k |-> k, v |-> v])),
          ret |-> LruNone, evicted |-> << >>]

\* LRU.__getitem__
LruGetItem(l, k) ==
    IF k \notin LruKeySet(l) THEN [lru |-> l, ret |-> "KeyError", evicted |-> << >>]
    ELSE [lru |-> LruWith(l, Append(LruWithout(l.map, k),
                                    [k |-> k, v |-> LruValue(l.map, k)])),
          ret |-> LruValue(l.map, k), evicted |-> << >>]

\* LRU.__delitem__
LruDelItem(l, k) ==
    [lru |-> LruWith(l, LruWithout(l.map, k)), ret |-> LruNone, evicted |-> << >>]

\* variant of LruGet: the value is read in place
LruGetPeek(l, k) ==
    IF k \notin LruKeySet(l) THEN [lru |-> l, ret |-> LruNone, evicted |-> << >>]
    ELSE [lru |-> l, ret |-> LruValue(l.map, k), evicted |-> << >>]

\* LRU.get with the default d = None
LruGet(l, k) ==
    IF k \notin LruKeySet(l) THEN [lru |-> l, ret |-> LruNone, evicted |-> << >>]
    ELSE LruGetItem(l, k)

\* LRU.__contains__
LruContains(l, k) ==
    [lru |-> l, ret |-> IF k \in LruKeySet(l) THEN "True" ELSE "False", evicted |-> << >>]

\* LRU.__len__
LruLen(l) == [lru |-> l, ret |-> Len(l.map), evicted |-> << >>]

\* LRU.__iter__, run to its end: the keys in the order of the map
LruIter(l) == [lru |-> l, ret |-> [i \in 1..Len(l.map) |-> l.map[i].k], evicted |-> << >>]

\* LRU.pop
LruPop(l, k) ==
    IF k \notin LruKeySet(l) THEN [lru |-> l, ret |-> "KeyError", evicted |-> << >>]
    ELSE [lru |-> LruWith(l, LruWithout(l.map, k)), ret |-> LruValue(l.map, k),
          evicted |-> << >>]

-----------------------------------------------------------------------------
(***************************************************************************)
(* Initial state: the device is open (main calls MTP.open before mounting) *)
(* and holds one of a few object trees.                                    *)
(***************************************************************************)
Obj(parent, name, isdir, data) ==
    [parent |-> parent, name |-> name, isdir |-> isdir, data |-> data]

InitDevs ==
    { <<Obj(0, "a", FALSE, <<1>>), Obj(0, "b", TRUE, << >>), Obj(2, "a", FALSE, <<2>>)>> }

InitOn(devs) ==
    /\ dev \in devs
    /\ nextId = Len(dev) + 1
    /\ faults = 0
    /\ flaky = FALSE
    /\ open_device = TRUE
    /\ nativeOpen = 1
    /\ devices = TRUE
    /\ tree = InitTree(dev)
    /\ openfiles = << >>
    /\ created = {}
    /\ fds = << >>
    /\ scratch = << >>
    /\ nextScratch = 1
    /\ call = Idle
    /\ lastOp = NoOp
    /\ rt = RtNone
    /\ lru = LruNew(CreatedSize)
    /\ tempdir = TRUE
    /\ STOPPED = FALSE
    /\ recency = << >>

Init == InitOn(InitDevs)

-----------------------------------------------------------------------------
(***************************************************************************)
(* Handlers that complete without a bulk transfer.                         *)
(***************************************************************************)
\* MTPFS.getattr as a function of the state: [t, ret]
GetattrOf(r, crt, path) ==
    IF r.exc THEN [t |-> r.t, ret |-> Fail("EXC")]
    ELSE IF r.en.k = "none"
    THEN [t |-> r.t,
          ret |-> IF path \in crt THEN Attr(Placeholder(path)) ELSE Fail("ENOENT")]
    ELSE [t |-> r.t, ret |-> Attr(r.en)]

GetattrResult(t, d, od, crt, path) == GetattrOf(GetPath(t, d, od, path), crt, path)

GetattrReturns(g) ==
    /\ tree' = g.t
    /\ lastOp' = Ret("getattr", << >>, 0, g.ret.res)

Getattr(path) ==
    /\ call = Idle
    /\ GetattrReturns(GetattrResult(tree, dev, open_device, created, path))
    /\ UNCHANGED <<dev, nextId, faults, flaky, open_device, nativeOpen, devices,
                   openfiles, created, fds, scratch, nextScratch, call>>
    /\ UNCHANGED <<lru, tempdir, STOPPED, recency>>
    /\ Track

\* MTP.rm(path) once MTPFS.unlink found a file entry; ok: LIBMTP_Delete_Object
\* succeeds.  Result [t, d, ok]
RmIn(r, pr, d, od, done) ==
    [t |-> IF pr.en.k = "dir"
           THEN RemovePath(MarkRefresh(pr.t, pr.en.p), od, r.en.p)
           ELSE pr.t,
     d |-> IF done THEN DevDelete(d, r.en.id) ELSE d,
     ok |-> done]

RmEntry(r, d, od, ok) ==
    RmIn(r, GetPath(r.t, d, od, DirName(r.en.p)), d, od, ok /\ r.en.id \in DOMAIN d)

MtpRm(t, d, od, path, ok) == RmEntry(GetPath(t, d, od, path), d, od, ok)

UnlinkReturns(path, m) ==
    /\ tree' = m.t
    /\ dev' = m.d
    /\ lastOp' = Ret("unlink", path, 0, IF m.ok THEN "OK" ELSE "EIO")

\* MTPFS.unlink, r: what get_path(path) found
UnlinkOf(path, r) ==
    IF r.exc
    THEN /\ lastOp' = Ret("unlink", path, 0, "EXC")
         /\ UNCHANGED <<dev, tree, faults>>
    ELSE IF r.en.k = "none"
    THEN /\ lastOp' = Ret("unlink", path, 0, "ENOENT")
         /\ tree' = r.t
         /\ UNCHANGED <<dev, faults>>
    ELSE IF IsDirectory(r.en)
    THEN /\ lastOp' = Ret("unlink", path, 0, "EISDIR")
         /\ tree' = r.t
         /\ UNCHANGED <<dev, faults>>
    ELSE \E ok \in BOOLEAN :
         /\ ok \/ faults > 0
         /\ faults' = IF ok THEN faults ELSE faults - 1
         /\ UnlinkReturns(path, MtpRm(r.t, dev, open_device, path, ok))

Unlink(path) ==
    /\ call = Idle
    /\ UnlinkOf(path, GetPath(tree, dev, open_device, path))
    /\ UNCHANGED <<nextId, flaky, open_device, nativeOpen, devices,
                   openfiles, created, fds, scratch, nextScratch, call>>
    /\ UNCHANGED <<lru, tempdir, STOPPED, recency>>
    /\ Track

\* MTP.rmdir after the delete, on the parent get_path(dirpath) found: must_refresh
\* is set, the parent is listed again from the device d1, the key leaves `contents`
RmdirTree(pr, d1, od, path) ==
    IF pr.en.k = "dir"
    THEN RemovePath(Refresh(MarkRefresh(pr.t, pr.en.p), d1, pr.en.p), od, path)
    ELSE IF pr.en.k = "vroot" THEN RemovePath(pr.t, od, path)
    ELSE pr.t

\* MTP.rmdir(path), e and pr: what get_path(path) and get_path(dirpath) found
\* (__entry_and_dir); done: LIBMTP_Delete_Object succeeds.  Result [t, d, ok]
RmdirIn(e, pr, d, od, done, path) ==
    IF ~IsDirectory(e.en) THEN [t |-> pr.t, d |-> d, ok |-> FALSE]
    ELSE IF done THEN [t |-> RmdirTree(pr, DevDelete(d, e.en.id), od, path),
                       d |-> DevDelete(d, e.en.id), ok |-> TRUE]
    ELSE [t |-> RmdirTree(pr, d, od, path), d |-> d, ok |-> FALSE]

RmdirEntry(e, d, od, ok, path) ==
    RmdirIn(e, GetPath(e.t, d, od, DirName(path)), d, od, ok /\ e.en.id \in DOMAIN d, path)

MtpRmdir(t, d, od, path, ok) == RmdirEntry(GetPath(t, d, od, path), d, od, ok, path)

RmdirReturns(path, m) ==
    /\ tree' = m.t
    /\ dev' = m.d
    /\ lastOp' = Ret("rmdir", path, 0, IF m.ok THEN "OK" ELSE "EIO")

\* MTPFS.rmdir, r: what get_path(path) found
RmdirOf(path, r) ==
    IF r.exc
    THEN /\ lastOp' = Ret("rmdir", path, 0, "EXC")
         /\ UNCHANGED <<dev, tree, faults>>
    ELSE IF r.en.k = "none"
    THEN /\ lastOp' = Ret("rmdir", path, 0, "ENOENT")
         /\ tree' = r.t
         /\ UNCHANGED <<dev, faults>>
    ELSE IF ~IsDirectory(r.en)
    THEN /\ RmdirReturns(path, MtpRmdir(r.t, dev, open_device, path, FALSE))
         /\ UNCHANGED faults
    ELSE \E ok \in BOOLEAN :
         /\ ok \/ faults > 0
         /\ faults' = IF ok THEN faults ELSE faults - 1
         /\ RmdirReturns(path, MtpRmdir(r.t, dev, open_device, path, ok))

Rmdir(path) ==
    /\ call = Idle
    /\ RmdirOf(path, GetPath(tree, dev, open_device, path))
    /\ UNCHANGED <<nextId, flaky, open_device, nativeOpen, devices,
                   openfiles, created, fds, scratch, nextScratch, call>>
    /\ UNCHANGED <<lru, tempdir, STOPPED, recency>>
    /\ Track

\* LIBMTP_Set_File_Name / LIBMTP_Set_Folder_Name: the object's name changes, its
\* parent does not; the device refuses a name another child of the parent bears
DevNameFree(d, id, name) ==
    \A i \in Children(d, d[id].parent) : i = id \/ d[i].name # name

DevSetName(d, id, name) ==
    [i \in DOMAIN d |->
        IF i = id THEN Obj(d[i].parent, name, d[i].isdir, d[i].data) ELSE d[i]]

\* MTPFolder.object_count on the entry get_path found
ObjectCount(t, en) ==
    IF en.k = "dir" THEN Len(t[en.p].dirs) + Len(t[en.p].files) ELSE 0

\* MTP.rename's last finally block: must_refresh on the two parent objects
MarkIfDir(t, en) == IF en.k = "dir" THEN MarkRefresh(t, en.p) ELSE t

RenameMarks(t, odr, ndr) == MarkIfDir(MarkIfDir(t, odr.en), ndr.en)

\* MTP.rename's try block; d1: the device once an existing file at newpath was
\* fetched to a backup file and deleted; set: Set_File_Name or Set_Folder_Name
\* returns 0.  When it does not and a backup was made, os.open(localbackup, 'r')
\* raises TypeError.  Result [t, d, res]
RenameSet(o, n, t, d1, set, newname) ==
    [t |-> t,
     d |-> IF set THEN DevSetName(d1, o.en.id, newname) ELSE d1,
     res |-> IF set THEN "OK" ELSE IF n.en.k = "file" THEN "EXC" ELSE "FALSE"]

RenameTry(o, n, t, d1, okSet, newname) ==
    RenameSet(o, n, t, d1,
              okSet /\ o.en.id \in DOMAIN d1 /\ DevNameFree(d1, o.en.id, newname), newname)

RenameDo(o, odr, n, ndr, d, okDel, okSet, newname) ==
    RenameTry(o, n, RenameMarks(ndr.t, odr, ndr),
              IF n.en.k = "file" /\ okDel /\ n.en.id \in DOMAIN d
              THEN DevDelete(d, n.en.id) ELSE d,
              okSet, newname)

\* MTP.rename(oldpath, newpath); o, odr, n, ndr: what get_path found for oldpath,
\* its directory, newpath and its directory, in the order of the calls
RenameNew(o, odr, n, d, od, new, okDel, okSet) ==
    IF n.en.k # "none" /\ IsDirectory(n.en) /\ ObjectCount(n.t, n.en) > 0
    THEN [t |-> n.t, d |-> d, res |-> "FALSE"]
    ELSE RenameDo(o, odr, n, GetPath(n.t, d, od, DirName(new)), d, okDel, okSet,
                  BaseName(new))

RenameOldDir(o, odr, d, od, new, okDel, okSet) ==
    RenameNew(o, odr, GetPath(odr.t, d, od, new), d, od, new, okDel, okSet)

RenameOld(o, d, od, old, new, okDel, okSet) ==
    IF o.en.k = "none" THEN [t |-> o.t, d |-> d, res |-> "FALSE"]
    ELSE RenameOldDir(o, GetPath(o.t, d, od, DirName(old)), d, od, new, okDel, okSet)

MtpRename(t, d, od, old, new, okDel, okSet) ==
    RenameOld(GetPath(t, d, od, old), d, od, old, new, okDel, okSet)

RenameReturned(old, new, res) == [Ret("rename", old, 0, res) EXCEPT !.newpath = new]

RenameReturns(old, new, m) ==
    /\ tree' = m.t
    /\ dev' = m.d
    /\ lastOp' = RenameReturned(old, new, IF m.res = "FALSE" THEN "EIO" ELSE m.res)

\* MTPFS.rename, r and rn: what get_path(oldpath) and get_path(newpath) found
\* (MTP.rename's get_path calls raise nothing when these two did not)
RenameOnto(old, new, r, rn) ==
    IF rn.exc
    THEN /\ lastOp' = RenameReturned(old, new, "EXC")
         /\ tree' = rn.t
         /\ UNCHANGED <<dev, faults>>
    ELSE IF IsDirectory(r.en) /\ IsDirectory(rn.en) /\ ObjectCount(rn.t, rn.en) > 0
    THEN /\ lastOp' = RenameReturned(old, new, "ENOTEMPTY")
         /\ tree' = rn.t
         /\ UNCHANGED <<dev, faults>>
    ELSE \E okDel \in BOOLEAN, okSet \in BOOLEAN :
         /\ okDel \/ rn.en.k = "file"
         /\ (IF okDel THEN 0 ELSE 1) + (IF okSet THEN 0 ELSE 1) <= faults
         /\ faults' = faults - ((IF okDel THEN 0 ELSE 1) + (IF okSet THEN 0 ELSE 1))
         /\ RenameReturns(old, new,
                          MtpRename(rn.t, dev, open_device, old, new, okDel, okSet))

RenameOf(old, new, r) ==
    IF r.exc
    THEN /\ lastOp' = RenameReturned(old, new, "EXC")
         /\ UNCHANGED <<dev, tree, faults>>
    ELSE IF r.en.k = "none"
    THEN /\ lastOp' = RenameReturned(old, new, "ENOENT")
         /\ tree' = r.t
         /\ UNCHANGED <<dev, faults>>
    ELSE RenameOnto(old, new, r, GetPath(r.t, dev, open_device, new))

Rename(old, new) ==
    /\ call = Idle
    /\ RenameOf(old, new, GetPath(tree, dev, open_device, old))
    /\ UNCHANGED <<nextId, flaky, open_device, nativeOpen, devices,
                   openfiles, created, fds, scratch, nextScratch, call>>
    /\ UNCHANGED <<lru, tempdir, STOPPED, recency>>
    /\ Track

\* the names of a list of MTPFolder or MTPFile objects, in the list's order
NamesOf(list) == [k \in 1..Len(list) |-> list[k].name]

\* variant of EntryNames: the root storage has no directories
EntryNamesNoStorage(t, en) ==
    IF en.k = "dir" THEN NamesOf(t[en.p].dirs) \o NamesOf(t[en.p].files)
    ELSE << >>

\* MTPStorage.get_directories / get_files and MTPFolder.get_directories /
\* get_files of the entry get_path found, as names
EntryNames(t, en) ==
    IF en.k = "dir" THEN NamesOf(t[en.p].dirs) \o NamesOf(t[en.p].files)
    ELSE IF en.k = "vroot" THEN <<Storage>>
    ELSE << >>

\* en.get_attributes() of the entries readdir lists after '.' and '..', in the
\* order of EntryNames
EntryAttrs(t, en) ==
    IF en.k = "dir"
    THEN [k \in 1..Len(t[en.p].dirs) |->
             Attr([k |-> "dir", p |-> << >>, id |-> t[en.p].dirs[k].id, len |-> 0])]
         \o [k \in 1..Len(t[en.p].files) |-> Attr(FileEntry(<< >>, t[en.p].files[k]))]
    ELSE IF en.k = "vroot"
    THEN <<Attr([k |-> "dir", p |-> RootPath, id |-> -3, len |-> 0])>>
    ELSE << >>

\* MTPFS.readdir as a function of the state: [t, res, names]
ReaddirOf(r) ==
    IF r.exc THEN [t |-> r.t, res |-> "EIO", names |-> << >>]
    ELSE [t |-> r.t, res |-> "OK", names |-> <<".", "..">> \o EntryNames(r.t, r.en)]

ReaddirResult(t, d, od, path) == ReaddirOf(GetPath(t, d, od, path))

ReaddirReturns(rd) ==
    /\ tree' = rd.t
    /\ lastOp' = Ret("readdir", << >>, 0, rd.res)

Readdir(path) ==
    /\ call = Idle
    /\ ReaddirReturns(ReaddirResult(tree, dev, open_device, path))
    /\ UNCHANGED <<dev, nextId, faults, flaky, open_device, nativeOpen, devices,
                   openfiles, created, fds, scratch, nextScratch, call>>
    /\ UNCHANGED <<lru, tempdir, STOPPED, recency>>
    /\ Track

-----------------------------------------------------------------------------
(***************************************************************************)
(* Handlers on open files: create, read, write.                            *)
(***************************************************************************)
Fhs == 1..MaxScratch

OpenFile(local, path, ro) == [path |-> local, mtp_path |-> path, readonly |-> ro]

\* the path FUSE passes with a file handle: the one the handle was opened on
PathOf(fh) == IF fh \in DOMAIN openfiles THEN openfiles[fh].mtp_path ELSE <<Storage, "a">>

\* MTPEntry.add_file / MTPFolder.add_file on the entry MTP.create resolved
AddFile(t, en, name) ==
    IF en.k = "dir"
    THEN [q \in DOMAIN t |->
            IF q = en.p
            THEN [id |-> t[q].id, must_refresh |-> t[q].must_refresh,
                  listed |-> t[q].listed, dirs |-> t[q].dirs,
                  files |-> Append(t[q].files, [name |-> name, id |-> -9999, len |-> 0])]
            ELSE t[q]]
    ELSE t

\* MTPFS.create, fh: the descriptor mkstemp returns, r: what MTP.create's
\* get_path(dirpath) found
CreateOf(path, fh, r) ==
    /\ fds' = FunPut(fds, fh, nextScratch)
    /\ scratch' = FunPut(scratch, nextScratch, << >>)
    /\ nextScratch' = nextScratch + 1
    /\ openfiles' = FunPut(openfiles, fh, OpenFile(nextScratch, path, FALSE))
    /\ IF r.exc \/ r.en.k = "none"
       THEN /\ lastOp' = Ret("create", path, fh, "EXC")
            /\ tree' = r.t
            /\ UNCHANGED created
       ELSE /\ tree' = AddFile(r.t, r.en, BaseName(path))
            /\ created' = created \cup {path}
            /\ lastOp' = Ret("create", path, fh, "OK")

Create(path) ==
    /\ call = Idle
    /\ nextScratch <= MaxScratch
    /\ CreateOf(path, LowestFreeFd(fds),
                GetPath(tree, dev, open_device, DirName(path)))
    /\ UNCHANGED <<dev, nextId, faults, flaky, open_device, nativeOpen, devices, call>>
    /\ UNCHANGED <<lru, tempdir, STOPPED, recency>>
    /\ Track

\* MTPFS.read as a function of the state: [res, data]
ReadResult(of, f, sc, size, offset, fh) ==
    IF fh \notin DOMAIN of \/ fh \notin DOMAIN f THEN [res |-> "EBADF", data |-> << >>]
    ELSE [res |-> "OK", data |-> ReadAt(sc[f[fh]], offset, size)]

Read(size, offset, fh) ==
    /\ call = Idle
    /\ lastOp' = Ret("read", << >>, 0,
                     ReadResult(openfiles, fds, scratch, size, offset, fh).res)
    /\ UNCHANGED <<dev, nextId, faults, flaky, open_device, nativeOpen, devices, tree,
                   openfiles, created, fds, scratch, nextScratch, call>>
    /\ UNCHANGED <<lru, tempdir, STOPPED, recency>>
    /\ Track

\* variant of WriteResult: the handle's readonly flag is not looked at
WriteResultAny(of, f, sc, data, offset, fh) ==
    IF fh \notin DOMAIN of \/ fh \notin DOMAIN f THEN [sc |-> sc, res |-> "EBADF"]
    ELSE [sc |-> [sc EXCEPT ![f[fh]] = WriteAt(@, offset, data)], res |-> "OK"]

\* variant of WriteResult: the data lands in every scratch file
WriteResultShared(of, f, sc, data, offset, fh) ==
    IF fh \notin DOMAIN of \/ of[fh].readonly THEN [sc |-> sc, res |-> "EBADF"]
    ELSE IF fh \notin DOMAIN f THEN [sc |-> sc, res |-> "EBADF"]
    ELSE [sc |-> [q \in DOMAIN sc |-> WriteAt(sc[q], offset, data)], res |-> "OK"]

\* MTPFS.write as a function of the state: [sc, res]
WriteResult(of, f, sc, data, offset, fh) ==
    IF fh \notin DOMAIN of \/ of[fh].readonly THEN [sc |-> sc, res |-> "EBADF"]
    ELSE IF fh \notin DOMAIN f THEN [sc |-> sc, res |-> "EBADF"]
    ELSE [sc |-> [sc EXCEPT ![f[fh]] = WriteAt(@, offset, data)], res |-> "OK"]

WriteReturns(fh, w) ==
    /\ scratch' = w.sc
    /\ lastOp' = Ret("write", PathOf(fh), fh, w.res)

Write(data, offset, fh) ==
    /\ call = Idle
    /\ offset + Len(data) <= MaxLen
    /\ WriteReturns(fh, WriteResult(openfiles, fds, scratch, data, offset, fh))
    /\ UNCHANGED <<dev, nextId, faults, flaky, open_device, nativeOpen, devices, tree,
                   openfiles, created, fds, nextScratch, call>>
    /\ UNCHANGED <<lru, tempdir, STOPPED, recency>>
    /\ Track

-----------------------------------------------------------------------------
(***************************************************************************)
(* Handlers that run a bulk transfer (MTP.copy_from, MTP.copy_to,          *)
(* MTP.mkdir).  The handler's prologue starts the transfer; `call` holds   *)
(* the handler's locals while the transfer attempts and the recovery steps *)
(* run; the step in which the transfer returns runs the handler's epilogue.*)
(***************************************************************************)
Xfer(op, xfer, path, fh, local, ro) ==
    [op |-> op, xfer |-> xfer, stage |-> "attempt", path |-> path, fh |-> fh,
     local |-> local, ro |-> ro, recurse |-> 0, off |-> 0, log |-> << >>]

Done(op, path, fh, res, log) ==
    [NoOp EXCEPT !.op = op, !.path = path, !.fh = fh, !.res = res, !.log = log]

\* MTPFS.open after copy_from returned code (or raised: "EXC")
OpenEpilogue(code, of, f, sc, c) ==
    IF code = "OK" \/ (code = "ENOENT" /\ ~c.ro)
    THEN [of |-> FunPut(of, c.fh, OpenFile(c.local, c.path, c.ro)),
          f |-> f, sc |-> sc, res |-> "OK"]
    ELSE IF code = "EXC"
    THEN [of |-> of, f |-> f, sc |-> sc, res |-> "EXC"]
    ELSE [of |-> of, f |-> FunDel(f, c.fh), sc |-> FunDel(sc, c.local), res |-> code]

OpenReturns(e, log) ==
    /\ openfiles' = e.of
    /\ fds' = e.f
    /\ scratch' = e.sc
    /\ UNCHANGED created
    /\ lastOp' = Done("open", call.path, call.fh, e.res, log)

\* MTPFS.release after copy_to returned code (or raised): `created` and the scratch
ReleaseEpilogue(code, crt, sc, c) ==
    [crt |-> IF code = "OK" THEN crt \ {c.path} ELSE crt,
     sc |-> FunDel(sc, c.local),
     res |-> code]

ReleaseReturns(e, log) ==
    /\ created' = e.crt
    /\ scratch' = e.sc
    /\ UNCHANGED <<openfiles, fds>>
    /\ lastOp' = Done("release", call.path, call.fh, e.res, log)

\* MTPFS.mkdir after MTP.mkdir returned
MkdirReturns(code, sc, log) ==
    /\ scratch' = sc
    /\ UNCHANGED <<openfiles, fds, created>>
    /\ lastOp' = Done("mkdir", call.path, 0, IF code = "FALSE" THEN "EIO" ELSE code, log)

\* MTPFS.mknod after its release returned: release's epilogue
MknodReturned(path, mode, res, log) ==
    [Done("mknod", path, 0, res, log) EXCEPT !.mode = mode]

MknodReturns(e, log) ==
    /\ created' = e.crt
    /\ scratch' = e.sc
    /\ UNCHANGED <<openfiles, fds>>
    /\ lastOp' = MknodReturned(call.path, call.mode, e.res, log)

\* the object a tree entry stands for, as the device holds it
RemoteObject(d, en) ==
    IF en.k = "file" /\ en.id \in DOMAIN d
    THEN [there |-> TRUE, id |-> en.id, data |-> d[en.id].data]
    ELSE [there |-> FALSE, id |-> 0, data |-> << >>]

\* the transfers of utimens; `before` keeps the object as utimens found it
UtimensXfer(path, fh, local, before) ==
    [op |-> "utimens", xfer |-> "from", stage |-> "attempt", path |-> path, fh |-> fh,
     local |-> local, ro |-> FALSE, recurse |-> 0, off |-> 0, log |-> << >>,
     before |-> before]

\* the transfers of truncate on a path that is not open
TruncateXfer(path, length, fh, local, xfer) ==
    [op |-> "truncate", xfer |-> xfer, stage |-> "attempt", path |-> path, fh |-> fh,
     local |-> local, ro |-> FALSE, recurse |-> 0, off |-> 0, log |-> << >>,
     length |-> length]

\* the second transfer of utimens and truncate: copy_to, from recurse = 0
ThenCopyTo(c, log) ==
    [c EXCEPT !.xfer = "to", !.stage = "attempt", !.recurse = 0, !.off = 0, !.log = log]

\* os.ftruncate(fh, length) on the content c
Ftruncate(c, length) == [k \in 1..length |-> IF k <= Len(c) THEN c[k] ELSE 0]

FtruncateFile(sc, local, length) ==
    [q \in DOMAIN sc |-> IF q = local THEN Ftruncate(sc[q], length) ELSE sc[q]]

\* MTPFS.utimens after copy_from or copy_to returned code (or raised: "EXC").
\* After copy_from the descriptor is closed and, on 0, copy_to follows; the
\* scratch file is removed nowhere.
UtimensReturns(code, sc, log) ==
    /\ scratch' = sc
    /\ UNCHANGED <<openfiles, created>>
    /\ IF call.xfer = "from" /\ code = "OK"
       THEN /\ call' = ThenCopyTo(call, log)
            /\ fds' = FunDel(fds, call.fh)
            /\ UNCHANGED lastOp
       ELSE /\ call' = Idle
            /\ fds' = IF call.xfer = "from" /\ code # "EXC" THEN FunDel(fds, call.fh)
                      ELSE fds
            /\ lastOp' = Done("utimens", call.path, call.fh, code, log)

\* MTPFS.truncate on a path that is not open, after copy_from or copy_to
\* returned code (or raised).  After copy_from returned 0: os.ftruncate, then
\* copy_to; after copy_to returned 0: os.close and os.remove.
TruncateReturns(code, sc, log) ==
    /\ UNCHANGED <<openfiles, created>>
    /\ IF call.xfer = "from" /\ code = "OK"
       THEN /\ call' = ThenCopyTo(call, log)
            /\ scratch' = FtruncateFile(sc, call.local, call.length)
            /\ UNCHANGED <<fds, lastOp>>
       ELSE IF code = "OK"
       THEN /\ call' = Idle
            /\ fds' = FunDel(fds, call.fh)
            /\ scratch' = FunDel(sc, call.local)
            /\ lastOp' = Done("truncate", call.path, call.fh, "OK", log)
       ELSE /\ call' = Idle
            /\ scratch' = sc
            /\ UNCHANGED fds
            /\ lastOp' = Done("truncate", call.path, call.fh, code, log)

\* the transfer of the handler in `call` returns code; sc: the scratch files now
Return(code, sc, log) ==
    /\ UNCHANGED nextScratch
    /\ CASE call.op = "open" ->
              /\ call' = Idle
              /\ OpenReturns(OpenEpilogue(code, openfiles, fds, sc, call), log)
         [] call.op = "release" ->
              /\ call' = Idle
              /\ ReleaseReturns(ReleaseEpilogue(code, created, sc, call), log)
         [] call.op = "mkdir" ->
              /\ call' = Idle
              /\ MkdirReturns(code, sc, log)
         [] call.op = "mknod" ->
              /\ call' = Idle
              /\ MknodReturns(ReleaseEpilogue(code, created, sc, call), log)
         [] call.op = "utimens" ->
              UtimensReturns(code, sc, log)
         [] call.op = "truncate" ->
              TruncateReturns(code, sc, log)

\* the transfer goes on: c is the new value of `call`
Continue(c, sc) ==
    /\ call' = c
    /\ scratch' = sc
    /\ UNCHANGED <<openfiles, created, fds, nextScratch, lastOp>>

\* MTPFS.open, fh and local: the descriptor and the scratch file mkstemp made,
\* r: what get_path(path) found
OpenOf(path, ro, fh, local, r) ==
    /\ nextScratch' = nextScratch + 1
    /\ tree' = r.t
    /\ IF r.exc \/ (r.en.k = "none" /\ path \notin created /\ ~ro)
       THEN /\ fds' = FunPut(fds, fh, local)
            /\ scratch' = FunPut(scratch, local, << >>)
            /\ lastOp' = Done("open", path, fh, "EXC", << >>)
            /\ UNCHANGED <<openfiles, call>>
       ELSE IF r.en.k = "none" /\ path \in created
       THEN /\ fds' = FunPut(fds, fh, local)
            /\ scratch' = FunPut(scratch, local, << >>)
            /\ openfiles' = FunPut(openfiles, fh, OpenFile(local, path, ro))
            /\ lastOp' = Done("open", path, fh, "OK", << >>)
            /\ UNCHANGED call
       ELSE IF r.en.k = "none" \/ IsDirectory(r.en)
       THEN /\ lastOp' = Done("open", path, fh,
                              IF r.en.k = "none" THEN "ENOENT" ELSE "EISDIR", << >>)
            /\ UNCHANGED <<fds, scratch, openfiles, call>>
       ELSE /\ fds' = FunPut(fds, fh, local)
            /\ scratch' = FunPut(scratch, local, << >>)
            /\ call' = Xfer("open", "from", path, fh, local, ro)
            /\ UNCHANGED <<openfiles, lastOp>>

Open(path, ro) ==
    /\ call = Idle
    /\ nextScratch <= MaxScratch
    /\ OpenOf(path, ro, LowestFreeFd(fds), nextScratch,
              GetPath(tree, dev, open_device, path))
    /\ UNCHANGED <<dev, nextId, faults, flaky, open_device, nativeOpen, devices, created>>
    /\ UNCHANGED <<lru, tempdir, STOPPED, recency>>
    /\ Track

\* MTPFS.utimens, fh and local: the descriptor and the scratch file mkstemp
\* makes, r: what get_path(path) found
UtimensOf(path, fh, local, r) ==
    /\ tree' = r.t
    /\ IF r.exc
       THEN /\ lastOp' = Done("utimens", path, 0, "EXC", << >>)
            /\ UNCHANGED <<fds, scratch, nextScratch, call>>
       ELSE IF r.en.k = "none"
       THEN /\ lastOp' = Done("utimens", path, 0,
                              IF path \in created THEN "OK" ELSE "ENOENT", << >>)
            /\ UNCHANGED <<fds, scratch, nextScratch, call>>
       ELSE IF IsDirectory(r.en)
       THEN /\ lastOp' = Done("utimens", path, 0, "OK", << >>)
            /\ UNCHANGED <<fds, scratch, nextScratch, call>>
       ELSE /\ nextScratch <= MaxScratch /\ nextId <= MaxId
            /\ nextScratch' = nextScratch + 1
            /\ fds' = FunPut(fds, fh, local)
            /\ scratch' = FunPut(scratch, local, << >>)
            /\ call' = UtimensXfer(path, fh, local, RemoteObject(dev, r.en))
            /\ UNCHANGED lastOp

Utimens(path) ==
    /\ call = Idle
    /\ UtimensOf(path, LowestFreeFd(fds), nextScratch,
                 GetPath(tree, dev, open_device, path))
    /\ UNCHANGED <<dev, nextId, faults, flaky, open_device, nativeOpen, devices,
                   openfiles, created>>
    /\ UNCHANGED <<lru, tempdir, STOPPED, recency>>
    /\ Track

\* MTPFS.__openfile_by_path: the first entry of openfiles with the path, in the
\* order of a dict with small integer keys; 0 stands for None
OpenfileByPath(of, path) ==
    IF \E h \in DOMAIN of : of[h].mtp_path = path
    THEN CHOOSE h \in DOMAIN of :
             /\ of[h].mtp_path = path
             /\ \A g \in DOMAIN of : of[g].mtp_path = path => h <= g
    ELSE 0

\* MTPFS.truncate on an entry of openfiles: os.ftruncate(fh, length) alone
TruncateOpen(path, length, fh) ==
    /\ IF fh \in DOMAIN fds /\ fds[fh] \in DOMAIN scratch
       THEN /\ scratch' = FtruncateFile(scratch, fds[fh], length)
            /\ lastOp' = Done("truncate", path, fh, "OK", << >>)
       ELSE /\ lastOp' = Done("truncate", path, fh, "EXC", << >>)
            /\ UNCHANGED scratch
    /\ UNCHANGED <<tree, fds, nextScratch, call>>

\* MTPFS.truncate on a path that is not open, fh and local: the descriptor and
\* the scratch file mkstemp made, r: what get_path(path) found
TruncateOf(path, length, fh, local, r) ==
    /\ nextScratch' = nextScratch + 1
    /\ fds' = FunPut(fds, fh, local)
    /\ tree' = r.t
    /\ IF r.exc
       THEN /\ lastOp' = Done("truncate", path, fh, "EXC", << >>)
            /\ scratch' = FunPut(scratch, local, << >>)
            /\ UNCHANGED call
       ELSE IF r.en.k = "none" /\ path \notin created
       THEN /\ lastOp' = Done("truncate", path, fh, "ENOENT", << >>)
            /\ scratch' = FunPut(scratch, local, << >>)
            /\ UNCHANGED call
       ELSE IF r.en.k = "none"
       THEN /\ nextId <= MaxId
            /\ scratch' = FunPut(scratch, local, Ftruncate(<< >>, length))
            /\ call' = TruncateXfer(path, length, fh, local, "to")
            /\ UNCHANGED lastOp
       ELSE IF IsDirectory(r.en)
       THEN /\ lastOp' = Done("truncate", path, fh, "EISDIR", << >>)
            /\ scratch' = FunPut(scratch, local, << >>)
            /\ UNCHANGED call
       ELSE /\ nextId <= MaxId
            /\ scratch' = FunPut(scratch, local, << >>)
            /\ call' = TruncateXfer(path, length, fh, local, "from")
            /\ UNCHANGED lastOp

\* MTPFS.truncate(path, length, fh), fh = 0 for None
TruncateAt(path, length, fh) ==
    IF fh \in DOMAIN openfiles
    THEN TruncateOpen(path, length, fh)
    ELSE /\ nextScratch <= MaxScratch
         /\ TruncateOf(path, length, LowestFreeFd(fds), nextScratch,
                       GetPath(tree, dev, open_device, path))

Truncate(path, length, fh) ==
    /\ call = Idle
    /\ TruncateAt(path, length, IF fh = 0 THEN OpenfileByPath(openfiles, path) ELSE fh)
    /\ UNCHANGED <<dev, nextId, faults, flaky, open_device, nativeOpen, devices,
                   openfiles, created>>
    /\ UNCHANGED <<lru, tempdir, STOPPED, recency>>
    /\ Track

\* MTPFS.release
Release(fh) ==
    /\ call = Idle
    /\ fds' = FunDel(fds, fh)
    /\ IF fh \notin DOMAIN openfiles
       THEN /\ lastOp' = Done("release", PathOf(fh), fh, "EXC", << >>)
            /\ UNCHANGED <<scratch, call>>
       ELSE IF openfiles[fh].readonly
       THEN /\ lastOp' = Done("release", PathOf(fh), fh, "OK", << >>)
            /\ scratch' = FunDel(scratch, openfiles[fh].path)
            /\ UNCHANGED call
       ELSE IF openfiles[fh].path \notin DOMAIN scratch
       THEN /\ lastOp' = Done("release", PathOf(fh), fh, "ENOENT", << >>)
            /\ UNCHANGED <<scratch, call>>
       ELSE /\ nextId <= MaxId
            /\ call' = Xfer("release", "to", PathOf(fh), fh, openfiles[fh].path, FALSE)
            /\ UNCHANGED <<scratch, lastOp>>
    /\ UNCHANGED <<dev, nextId, faults, flaky, open_device, nativeOpen, devices, tree,
                   openfiles, created, nextScratch>>
    /\ UNCHANGED <<lru, tempdir, STOPPED, recency>>
    /\ Track

\* st_mode file types (stat module)
S_IFIFO == 4096
S_IFCHR == 8192
S_IFDIR == 16384
S_IFBLK == 24576
S_IFREG == 32768
S_IFLNK == 40960
S_IFSOCK == 49152
FileTypes == {S_IFIFO, S_IFCHR, S_IFDIR, S_IFBLK, S_IFREG, S_IFLNK, S_IFSOCK}

\* mode & stat.S_IFREG, for a mode below 2 * S_IFREG
AndIfReg(mode) == IF mode >= S_IFREG THEN S_IFREG ELSE 0

\* the transfer mknod's release starts
MknodXfer(path, mode, fh, local) ==
    [op |-> "mknod", xfer |-> "to", stage |-> "attempt", path |-> path, fh |-> fh,
     local |-> local, ro |-> FALSE, recurse |-> 0, off |-> 0, log |-> << >>,
     mode |-> mode]

\* MTPFS.mknod past the mode test: create(path, mode), then release(path, fh),
\* which closes fh and uploads the scratch file; r: what MTP.create's
\* get_path(dirpath) found
MknodOf(path, mode, fh, r) ==
    /\ scratch' = FunPut(scratch, nextScratch, << >>)
    /\ nextScratch' = nextScratch + 1
    /\ openfiles' = FunPut(openfiles, fh, OpenFile(nextScratch, path, FALSE))
    /\ IF r.exc \/ r.en.k = "none"
       THEN /\ lastOp' = MknodReturned(path, mode, "EXC", << >>)
            /\ fds' = FunPut(fds, fh, nextScratch)
            /\ tree' = r.t
            /\ UNCHANGED <<created, call>>
       ELSE /\ nextId <= MaxId
            /\ tree' = AddFile(r.t, r.en, BaseName(path))
            /\ created' = created \cup {path}
            /\ call' = MknodXfer(path, mode, fh, nextScratch)
            /\ UNCHANGED <<fds, lastOp>>

\* MTPFS.mknod
Mknod(path, mode) ==
    /\ call = Idle
    /\ IF AndIfReg(mode) # S_IFREG
       THEN /\ lastOp' = MknodReturned(path, mode, "EINVAL", << >>)
            /\ UNCHANGED <<tree, openfiles, created, fds, scratch, nextScratch, call>>
       ELSE /\ nextScratch <= MaxScratch
            /\ MknodOf(path, mode, LowestFreeFd(fds),
                       GetPath(tree, dev, open_device, DirName(path)))
    /\ UNCHANGED <<dev, nextId, faults, flaky, open_device, nativeOpen, devices>>
    /\ UNCHANGED <<lru, tempdir, STOPPED, recency>>
    /\ Track

\* MTPFS.mkdir, r and pr: what get_path(path) and get_path(dirpath) found
MkdirIn(path, pr) ==
    IF pr.exc
    THEN /\ lastOp' = Done("mkdir", path, 0, "EXC", << >>)
         /\ tree' = pr.t
         /\ UNCHANGED call
    ELSE IF ~IsDirectory(pr.en)
    THEN /\ lastOp' = Done("mkdir", path, 0, "ENOTDIR", << >>)
         /\ tree' = pr.t
         /\ UNCHANGED call
    ELSE /\ nextId <= MaxId
         /\ call' = Xfer("mkdir", "mkdir", path, 0, 0, FALSE)
         /\ tree' = pr.t
         /\ UNCHANGED lastOp

MkdirOf(path, r) ==
    IF r.exc
    THEN /\ lastOp' = Done("mkdir", path, 0, "EXC", << >>)
         /\ UNCHANGED <<tree, call>>
    ELSE IF r.en.k # "none"
    THEN /\ lastOp' = Done("mkdir", path, 0, "EEXIST", << >>)
         /\ tree' = r.t
         /\ UNCHANGED call
    ELSE MkdirIn(path, GetPath(r.t, dev, open_device, DirName(path)))

Mkdir(path) ==
    /\ call = Idle
    /\ MkdirOf(path, GetPath(tree, dev, open_device, path))
    /\ UNCHANGED <<dev, nextId, faults, flaky, open_device, nativeOpen, devices,
                   openfiles, created, fds, scratch, nextScratch>>
    /\ UNCHANGED <<lru, tempdir, STOPPED, recency>>
    /\ Track

-----------------------------------------------------------------------------
(***************************************************************************)
(* One attempt of a bulk transfer.  The native call's outcome is the       *)
(* environment's choice: "ok"; "err" (non-zero return); "timeout" (the     *)
(* alarm fired and the call returned non-zero); "partial" (as timeout,     *)
(* after part of the object was written); "late" (the call returned 0 and  *)
(* the alarm fired before it was cancelled).                               *)
(***************************************************************************)
Outcomes == {"ok", "err", "timeout", "partial", "late"}
TimedOut(out) == out \in {"timeout", "partial", "late"}

\* variant of Recover: level 2 closes and reopens the device like level 1
RecoverOn(c, sc, log) ==
    Continue([c EXCEPT !.stage = "close", !.log = log], sc)

\* variant of Recover: the attempt is made again on the device as it is
RecoverInPlace(c, sc, log) ==
    IF c.recurse = 2
    THEN Return("EINTR", sc, log)
    ELSE Continue([c EXCEPT !.recurse = @ + 1, !.log = log], sc)

\* where the recovery code goes after a failed attempt at level call.recurse
Recover(c, sc, log) ==
    IF c.recurse = 2
    THEN Return("EINTR", sc, log)
    ELSE Continue([c EXCEPT !.stage = "close", !.log = log], sc)

\* one attempt of LIBMTP_Get_File_To_File_Descriptor on the file entry en
FromAttempt(en, out, there, data, wrote) ==
    /\ there \/ out = "err"
    /\ out = "partial" => Len(data) >= 1
    /\ (there /\ out # "ok") => faults > 0
    /\ faults' = IF there /\ out # "ok" THEN faults - 1 ELSE faults
    /\ IF TimedOut(out)
       THEN Recover([call EXCEPT !.off = @ + Len(wrote)],
                    IF call.local \in DOMAIN scratch
                    THEN [scratch EXCEPT ![call.local] = WriteAt(@, call.off, wrote)]
                    ELSE scratch,
                    Append(call.log, "try_" \o out))
       ELSE Return(IF out = "ok" THEN "OK" ELSE "EIO",
                   IF call.local \in DOMAIN scratch
                   THEN [scratch EXCEPT ![call.local] = WriteAt(@, call.off, wrote)]
                   ELSE scratch,
                   Append(call.log, "try_" \o out))

\* the bytes the device object id holds, and what an attempt writes of them
DevData(d, id) == IF id \in DOMAIN d THEN d[id].data ELSE << >>

Fetched(out, data) ==
    IF out \in {"ok", "late"} THEN data
    ELSE IF out = "partial" THEN SubSeq(data, 1, 1)
    ELSE << >>

\* MTP.copy_from(source = call.path, target = call.fh), r: what get_path found
CopyFrom(r) ==
    /\ tree' = r.t
    /\ IF r.exc
       THEN Return("EXC", scratch, call.log) /\ UNCHANGED faults
       ELSE IF r.en.k = "none"
       THEN Return("ENOENT", scratch, call.log) /\ UNCHANGED faults
       ELSE IF IsDirectory(r.en)
       THEN Return("EISDIR", scratch, call.log) /\ UNCHANGED faults
       ELSE \E out \in Outcomes :
            FromAttempt(r.en, out, r.en.id \in DOMAIN dev, DevData(dev, r.en.id),
                        Fetched(out, DevData(dev, r.en.id)))

XferFrom ==
    /\ call # Idle /\ call.xfer = "from" /\ call.stage = "attempt"
    /\ UNCHANGED <<dev, nextId, flaky, open_device, nativeOpen, devices>>
    /\ CopyFrom(GetPath(tree, dev, open_device, call.path))
    /\ UNCHANGED <<lru, tempdir, STOPPED, recency>>
    /\ Track

\* variant of DevSend: the device stores the object without its bytes
DevSendEmpty(d, id, parent, name, data) ==
    FunPut(d, id, Obj(parent, name, FALSE, << >>))

\* LIBMTP_Send_File_From_File*: the device stores a new object under parent
DevSend(d, id, parent, name, data) ==
    FunPut(d, id, Obj(parent, name, FALSE, data))

\* LIBMTP_Create_Folder
DevCreateFolder(d, id, parent, name) ==
    FunPut(d, id, Obj(parent, name, TRUE, << >>))

ValidParent(d, pid) == pid = 0 \/ (pid \in DOMAIN d /\ d[pid].isdir)

\* the device stores a new object under a folder it holds and under a name no
\* other child of the folder bears
DevAccepts(d, pid, name) ==
    ValidParent(d, pid) /\ \A i \in Children(d, pid) : d[i].name # name

\* direntry.must_refresh = True; direntry.refresh() -- a file entry has no refresh
RefreshDir(t, d, en) ==
    IF en.k = "dir" THEN Refresh(MarkRefresh(t, en.p), d, en.p) ELSE t

\* MTP.copy_to from the send on: d1, t1: device and tree after the delete;
\* valid: the device accepts the parent id and the name; stored: the object is stored;
\* failed: the send returned non-zero or the alarm fired; cost: faults used
ToSend(dr, out, chk, d1, t1, valid, stored, failed, cost) ==
    /\ valid \/ out = "err"
    /\ (stored /\ out = "late") => nextId < MaxId
    /\ (failed /\ flaky) \/ chk
    /\ cost <= faults
    /\ faults' = faults - cost
    /\ IF call.local \notin DOMAIN scratch
       THEN /\ out = "ok" /\ chk
            /\ tree' = t1 /\ dev' = d1
            /\ UNCHANGED nextId
            /\ Return("EXC", scratch, call.log)
       ELSE /\ nextId' = IF stored THEN nextId + 1 ELSE nextId
            /\ IF failed /\ ~chk
               THEN /\ tree' = t1
                    /\ dev' = IF stored
                              THEN DevSend(d1, nextId, dr.en.id, BaseName(call.path),
                                           scratch[call.local])
                              ELSE d1
                    /\ Recover(call, scratch,
                               call.log \o <<IF valid THEN "try_" \o out ELSE "try_err",
                                              "check_fail">>)
               ELSE /\ dev' = IF stored
                              THEN DevSend(d1, nextId, dr.en.id, BaseName(call.path),
                                           scratch[call.local])
                              ELSE d1
                    /\ tree' = RefreshDir(t1, dev', dr.en)
                    /\ Return(IF dr.en.k = "dir" THEN "OK" ELSE "EXC", scratch,
                              call.log \o <<IF valid THEN "try_" \o out ELSE "try_err">>
                                       \o (IF failed THEN <<"check_ok">> ELSE << >>))

\* MTP.copy_to from the delete of the old object on: canDel: there is an object
\* to delete; d1, t1: device and tree after the delete
ToDelete(dr, out, chk, canDel, delOk, d1, t1) ==
    /\ canDel \/ delOk
    /\ IF canDel /\ delOk /\ dr.en.k = "file"
       THEN /\ out = "ok" /\ chk
            /\ tree' = t1 /\ dev' = d1
            /\ UNCHANGED <<nextId, faults>>
            /\ Return("EXC", scratch, call.log)
       ELSE ToSend(dr, out, chk, d1, t1,
                   DevAccepts(d1, dr.en.id, BaseName(call.path)),
                   DevAccepts(d1, dr.en.id, BaseName(call.path)) /\ out \in {"ok", "late"},
                   ~DevAccepts(d1, dr.en.id, BaseName(call.path)) \/ out # "ok",
                   (IF canDel /\ ~delOk THEN 1 ELSE 0)
                     + (IF DevAccepts(d1, dr.en.id, BaseName(call.path)) /\ out # "ok"
                        THEN 1 ELSE 0))

ToDeleted(dr, out, chk, canDel, delOk, d1) ==
    ToDelete(dr, out, chk, canDel, delOk, d1,
             IF canDel /\ delOk THEN RefreshDir(dr.t, d1, dr.en) ELSE dr.t)

ToEntry(e, dr, out, chk, canDel, delOk) ==
    ToDeleted(dr, out, chk, canDel, delOk,
              IF canDel /\ delOk THEN DevDelete(dev, e.en.id) ELSE dev)

ToQuit(code, t) ==
    /\ tree' = t
    /\ UNCHANGED <<dev, nextId, faults>>
    /\ Return(code, scratch, call.log)

\* MTP.copy_to(source = scratch file call.local, target = call.path), e and dr:
\* what __entry_and_dir found
CopyTo(e, dr) ==
    IF e.exc \/ dr.exc THEN ToQuit("EXC", tree)
    ELSE IF e.en.k = "none" /\ ~IsDirectory(dr.en) THEN ToQuit("EXC", dr.t)
    ELSE IF IsDirectory(e.en) THEN ToQuit("EISDIR", dr.t)
    ELSE \E delOk \in BOOLEAN, out \in Outcomes \ {"partial"}, chk \in BOOLEAN :
         ToEntry(e, dr, out, chk,
                 e.en.k = "file" /\ e.en.id >= 0 /\ e.en.id \in DOMAIN dev, delOk)

CopyToDir(e) == CopyTo(e, GetPath(e.t, dev, open_device, DirName(call.path)))

XferTo ==
    /\ call # Idle /\ call.xfer = "to" /\ call.stage = "attempt"
    /\ UNCHANGED <<flaky, open_device, nativeOpen, devices>>
    /\ CopyToDir(GetPath(tree, dev, open_device, call.path))
    /\ UNCHANGED <<lru, tempdir, STOPPED, recency>>
    /\ Track

\* MTP.mkdir from LIBMTP_Create_Folder on: valid: the device accepts the parent
\* id and the name; made: the folder is created
MkdirAttempt(dr, out, chk, valid, made) ==
    /\ valid \/ out = "err"
    /\ (valid /\ out = "err") => faults > 0
    /\ (~made /\ flaky) \/ chk
    /\ faults' = IF valid /\ out = "err" THEN faults - 1 ELSE faults
    /\ dev' = IF made
              THEN DevCreateFolder(dev, nextId, dr.en.id, BaseName(call.path))
              ELSE dev
    /\ nextId' = IF made THEN nextId + 1 ELSE nextId
    /\ IF made
       THEN /\ tree' = RefreshDir(dr.t, dev', dr.en)
            /\ Return("OK", scratch, Append(call.log, "try_ok"))
       ELSE IF chk
       THEN /\ tree' = dr.t
            /\ Return("FALSE", scratch, call.log \o <<"try_err", "check_ok">>)
       ELSE /\ tree' = dr.t
            /\ Continue([call EXCEPT !.stage = "close",
                                     !.log = @ \o <<"try_err", "check_fail">>],
                        scratch)

\* MTP.mkdir(call.path), e and dr: what __entry_and_dir found
MtpMkdir(e, dr) ==
    IF e.exc \/ dr.exc THEN ToQuit("EXC", tree)
    ELSE IF e.en.k # "none" THEN ToQuit("FALSE", dr.t)
    ELSE IF ~IsDirectory(dr.en) THEN ToQuit("FALSE", dr.t)
    ELSE \E out \in {"ok", "err"}, chk \in BOOLEAN :
         MkdirAttempt(dr, out, chk, DevAccepts(dev, dr.en.id, BaseName(call.path)),
                      DevAccepts(dev, dr.en.id, BaseName(call.path)) /\ out = "ok")

MtpMkdirDir(e) == MtpMkdir(e, GetPath(e.t, dev, open_device, DirName(call.path)))

XferMkdir ==
    /\ call # Idle /\ call.xfer = "mkdir" /\ call.stage = "attempt"
    /\ UNCHANGED <<flaky, open_device, nativeOpen, devices>>
    /\ MtpMkdirDir(GetPath(tree, dev, open_device, call.path))
    /\ UNCHANGED <<lru, tempdir, STOPPED, recency>>
    /\ Track

\* MTP.close() in the recovery code of the transfer in `call`
XferClose ==
    /\ call # Idle /\ call.stage = "close"
    /\ tree' = CloseTree
    /\ devices' = FALSE
    /\ open_device' = CloseOpenDevice
    /\ nativeOpen' = CloseNative(open_device, nativeOpen)
    /\ UNCHANGED <<dev, nextId, faults, flaky>>
    /\ LET log == Append(call.log, "close")
       IN IF call.xfer = "mkdir" /\ call.recurse = 1
          THEN Return("FALSE", scratch, log)
          ELSE Continue([call EXCEPT !.stage = "reopen", !.log = log], scratch)
    /\ UNCHANGED <<lru, tempdir, STOPPED, recency>>
    /\ Track

\* MTP.open(devno, must_refresh): the device list is read again ("rescan") when
\* it is None or empty or must_refresh is set
Rescans(devs, must_refresh) == ~devs \/ must_refresh

\* MTP.open(devno, must_refresh) in the recovery code, and what follows it.
\* ok: the device opens and answers; found: the rescan lists the device
XferReopen ==
    /\ call # Idle /\ call.stage = "reopen"
    /\ UNCHANGED <<dev, nextId, flaky>>
    /\ \E ok \in BOOLEAN, found \in BOOLEAN :
         LET must_refresh == call.xfer = "mkdir" \/ call.recurse = 1
             rescan == Rescans(devices, must_refresh)
             log == call.log \o (IF rescan THEN <<"rescan">> ELSE << >>)
                             \o <<IF ok THEN "open_ok" ELSE "open_fail">>
         IN /\ ok \/ faults > 0
            /\ ok => found
            /\ rescan \/ found = devices
            /\ faults' = IF ok THEN faults ELSE faults - 1
            /\ devices' = found
            /\ open_device' = ok
            /\ nativeOpen' = IF ok THEN nativeOpen + 1 ELSE nativeOpen
            /\ tree' = IF ok THEN InitTree(dev) ELSE tree
            /\ IF ok
               THEN Continue([call EXCEPT !.stage = "attempt", !.recurse = @ + 1,
                                          !.log = log], scratch)
               ELSE IF call.xfer = "mkdir"
               THEN Return("EXC", scratch, log)
               ELSE IF call.recurse = 0
               THEN Continue([call EXCEPT !.stage = "close", !.recurse = 1,
                                          !.log = log], scratch)
               ELSE Return("EINTR", scratch, log)
    /\ UNCHANGED <<lru, tempdir, STOPPED, recency>>
    /\ Track

-----------------------------------------------------------------------------
(***************************************************************************)
(* Specifications.  Spec: every handler, on a device that answers every    *)
(* call.  SpecTree: the handlers that take a path and no handle, on every  *)
(* path.  SpecRecovery: transfers on a device that may fail, time out or   *)
(* stop answering, MaxFaults times in all, with the recovery code.         *)
(***************************************************************************)
Next ==
    \/ \E path \in {<<Storage, "a">>, <<Storage, "b", "b">>} : Getattr(path)
    \/ \E path \in {<<Storage, "a">>} : Unlink(path)
    \/ \E path \in {<<Storage, "a">>, <<Storage, "b", "b">>} : Create(path)
    \/ \E size \in 0..MaxLen, fh \in Fhs : Read(size, 0, fh)
    \/ \E data \in Contents, fh \in Fhs : Write(data, 0, fh)
    \/ \E path \in {<<Storage, "a">>, <<Storage, "b">>, <<Storage, "b", "b">>},
          ro \in BOOLEAN : Open(path, ro)
    \/ \E fh \in Fhs : Release(fh)
    \/ \E path \in {<<Storage, "b", "b">>} : Mkdir(path)
    \/ \E mode \in FileTypes : Mknod(<<Storage, "b", "b">>, mode)
    \/ XferFrom
    \/ XferTo
    \/ XferMkdir

Spec == Init /\ [][Next]_vars

\* the calls of rename: within the storage root, within a folder, from the root
\* into a folder, and of a folder
RenamePairs ==
    { <<<<Storage, "a">>, <<Storage, "b">>>>,
      <<<<Storage, "b", "a">>, <<Storage, "b", "b">>>>,
      <<<<Storage, "a">>, <<Storage, "b", "a">>>>,
      <<<<Storage, "b">>, <<Storage, "a">>>> }

NextTree ==
    \/ \E path \in AllPaths : Getattr(path)
    \/ \E path \in AllPaths : Unlink(path)
    \/ \E path \in StoragePaths \cup {<<"X", "a">>} : Mkdir(path)
    \/ XferMkdir

SpecTree == Init /\ [][NextTree]_vars

\* SpecDirs: the handlers that change folders, from a device that holds a file, a
\* folder and a folder in it
NestedDevs ==
    { <<Obj(0, "a", FALSE, <<1>>), Obj(0, "b", TRUE, << >>), Obj(2, "a", TRUE, << >>)>> }

InitDirs == InitOn(NestedDevs)

NextDirs ==
    \/ \E path \in {RootPath, <<Storage, "a">>, <<Storage, "b">>, <<"X">>} : Readdir(path)
    \/ \E path \in StoragePaths \ {RootPath} : Mkdir(path)
    \/ \E path \in (StoragePaths \ {RootPath}) \cup {<<"X">>} : Rmdir(path)
    \/ \E pair \in RenamePairs : Rename(pair[1], pair[2])
    \/ XferMkdir

SpecDirs == InitDirs /\ [][NextDirs]_vars

InitRecovery ==
    /\ dev \in {SubSeq(d, 1, 2) : d \in InitDevs}
    /\ nextId = Len(dev) + 1
    /\ faults = MaxFaults
    /\ flaky = TRUE
    /\ open_device = TRUE
    /\ nativeOpen = 1
    /\ devices = TRUE
    /\ tree = InitTree(dev)
    /\ openfiles = << >>
    /\ created = {}
    /\ fds = << >>
    /\ scratch = << >>
    /\ nextScratch = 1
    /\ call = Idle
    /\ lastOp = NoOp
    /\ rt = RtNone
    /\ lru = LruNew(CreatedSize)
    /\ tempdir = TRUE
    /\ STOPPED = FALSE
    /\ recency = << >>

NextRecovery ==
    \/ \E path \in {<<Storage, "b", "b">>} : Create(path)
    \/ \E data \in {<<1>>}, fh \in Fhs : Write(data, 0, fh)
    \/ \E path \in {<<Storage, "a">>} : Open(path, TRUE)
    \/ \E fh \in Fhs : Release(fh)
    \/ \E path \in {<<Storage, "b", "b">>} : Mkdir(path)
    \/ XferFrom
    \/ XferTo
    \/ XferMkdir
    \/ XferClose
    \/ XferReopen

SpecRecovery == InitRecovery /\ [][NextRecovery]_vars

\* SpecTimes: utimens and truncate next to open, read and release, on a device
\* that may fail as in SpecRecovery.
NextTimes ==
    \/ \E path \in {<<Storage, "a">>, <<Storage, "b">>, <<Storage, "c">>} : Utimens(path)
    \/ \E path \in {<<Storage, "a">>, <<Storage, "b">>, <<Storage, "c">>},
          length \in 0..MaxLen, fh \in {0} \cup Fhs : Truncate(path, length, fh)
    \/ \E path \in {<<Storage, "a">>} : Open(path, TRUE)
    \/ \E size \in {MaxLen}, fh \in Fhs : Read(size, 0, fh)
    \/ \E fh \in Fhs : Release(fh)
    \/ XferFrom
    \/ XferTo
    \/ XferClose
    \/ XferReopen

SpecTimes == InitRecovery /\ [][NextTimes]_vars

\* SpecLRU: the methods of one LRU object of capacity 1..MaxLruSize, called in
\* any order on a few keys and values.
MaxLruSize == 3
LruKeys == {"a", "b", "c", "d"}
LruVals == {"v", "w"}

\* a method of the LRU object returns e; the key and the evicted keys are recorded
LruReturns(op, k, e) ==
    /\ lru' = e.lru
    /\ lastOp' = [NoOp EXCEPT !.op = op, !.path = <<k>>, !.res = e.ret,
                              !.log = e.evicted]

\* what no method of the LRU object touches
fsVars == <<dev, nextId, faults, flaky, open_device, nativeOpen, devices, tree,
            openfiles, created, fds, scratch, nextScratch, call, rt, tempdir,
            STOPPED>>

\* The reference the LRU object is compared with, a strict LRU map: `recency`
\* lists its keys, the key whose last use is oldest first.  A use is a
\* __setitem__, a __getitem__ that finds the key, or a get that finds it.
RecencyWithout(r, k) == SelectSeq(r, LAMBDA e : e # k)

RecencyUse(r, k) == Append(RecencyWithout(r, k), k)

RecencyHit(r, k) == IF \E i \in 1..Len(r) : r[i] = k THEN RecencyUse(r, k) ELSE r

RecencySet(r, k, size) ==
    IF \E i \in 1..Len(r) : r[i] = k THEN RecencyUse(r, k)
    ELSE IF Len(r) >= size THEN Append(Tail(r), k)
    ELSE Append(r, k)

SetItem(k, v) ==
    /\ LruReturns("LRU.__setitem__", k, LruSetItem(lru, k, v))
    /\ recency' = RecencySet(recency, k, lru.size)
    /\ UNCHANGED fsVars

GetItem(k) ==
    /\ LruReturns("LRU.__getitem__", k, LruGetItem(lru, k))
    /\ recency' = RecencyHit(recency, k)
    /\ UNCHANGED fsVars

DelItem(k) ==
    /\ LruReturns("LRU.__delitem__", k, LruDelItem(lru, k))
    /\ recency' = RecencyWithout(recency, k)
    /\ UNCHANGED fsVars

Get(k) ==
    /\ LruReturns("LRU.get", k, LruGet(lru, k))
    /\ recency' = RecencyHit(recency, k)
    /\ UNCHANGED fsVars

Pop(k) ==
    /\ LruReturns("LRU.pop", k, LruPop(lru, k))
    /\ recency' = RecencyWithout(recency, k)
    /\ UNCHANGED fsVars

Contains(k) ==
    /\ LruReturns("LRU.__contains__", k, LruContains(lru, k))
    /\ UNCHANGED recency
    /\ UNCHANGED fsVars

Length ==
    /\ LruReturns("LRU.__len__", "", LruLen(lru))
    /\ UNCHANGED recency
    /\ UNCHANGED fsVars

Iter ==
    /\ LruReturns("LRU.__iter__", "", LruIter(lru))
    /\ UNCHANGED recency
    /\ UNCHANGED fsVars

InitLRU ==
    /\ dev \in InitDevs
    /\ nextId = Len(dev) + 1
    /\ faults = 0
    /\ flaky = FALSE
    /\ open_device = TRUE
    /\ nativeOpen = 1
    /\ devices = TRUE
    /\ tree = InitTree(dev)
    /\ openfiles = << >>
    /\ created = {}
    /\ fds = << >>
    /\ scratch = << >>
    /\ nextScratch = 1
    /\ call = Idle
    /\ lastOp = NoOp
    /\ rt = RtNone
    /\ lru \in {LruNew(n) : n \in 1..MaxLruSize}
    /\ tempdir = TRUE
    /\ STOPPED = FALSE
    /\ recency = << >>

NextLRU ==
    \/ \E k \in LruKeys, v \in LruVals : SetItem(k, v)
    \/ \E k \in LruKeys : GetItem(k)
    \/ \E k \in LruKeys : DelItem(k)
    \/ \E k \in LruKeys : Get(k)
    \/ \E k \in LruKeys : Pop(k)
    \/ \E k \in LruKeys : Contains(k)
    \/ Length
    \/ Iter

SpecLRU == InitLRU /\ [][NextLRU]_vars

-----------------------------------------------------------------------------
(***************************************************************************)
(* The end of a mount: destroy, which FUSE calls when the file system is   *)
(* unmounted, and the handler of SIGTERM and SIGQUIT.                      *)
(***************************************************************************)
\* no handler runs after destroy
Unmounted ==
    [op |-> "unmounted", xfer |-> "none", stage |-> "none", path |-> << >>, fh |-> 0,
     local |-> 0, ro |-> FALSE, recurse |-> 0, off |-> 0, log |-> << >>]

CloseHandlesNone(f, of) == f

\* destroy's loop over openfiles.values(): os.close(openfile.handle); a handle
\* that is not an open descriptor raises, which is caught
CloseHandles(f, of) == [fh \in DOMAIN f \ DOMAIN of |-> f[fh]]

\* shutil.rmtree(self.tempdir): the scratch files that are left
RmTree(sc) == [q \in {} |-> sc[q]]

\* MTPFS.destroy
Destroy ==
    /\ call = Idle
    /\ tree' = CloseTree
    /\ devices' = FALSE
    /\ open_device' = CloseOpenDevice
    /\ nativeOpen' = CloseNative(open_device, nativeOpen)
    /\ fds' = CloseHandles(fds, openfiles)
    /\ scratch' = RmTree(scratch)
    /\ tempdir' = FALSE
    /\ call' = Unmounted
    /\ lastOp' = Ret("destroy", << >>, 0, "OK")
    /\ UNCHANGED <<dev, nextId, faults, flaky, openfiles, created, nextScratch>>
    /\ UNCHANGED <<lru, STOPPED, recency>>
    /\ Track

\* signal_handler, installed by main for SIGTERM and SIGQUIT
SignalHandler ==
    /\ call # Unmounted
    /\ STOPPED' = TRUE
    /\ UNCHANGED <<dev, nextId, faults, flaky, open_device, nativeOpen, devices, tree,
                   openfiles, created, fds, scratch, nextScratch, call, lastOp, rt,
                   lru, tempdir, recency>>

\* SpecMount: the transfers of SpecRecovery and the unmount, which may come
\* whenever no handler is running.
NextMount ==
    \/ NextRecovery
    \/ Destroy

SpecMount == InitRecovery /\ [][NextMount]_vars

\* SpecSignal: a mounted file system that may receive SIGTERM or SIGQUIT.  The
\* calls of handlers, the signal and the unmount are events from outside the
\* process and need not happen; a handler that has begun a transfer goes on
\* until it returns.
NextSignal ==
    \/ \E path \in {<<Storage, "b">>} : Create(path)
    \/ \E data \in {<<1>>}, fh \in Fhs : Write(data, 0, fh)
    \/ \E fh \in Fhs : Release(fh)
    \/ XferTo
    \/ SignalHandler
    \/ Destroy

SpecSignal == Init /\ [][NextSignal]_vars /\ WF_vars(XferTo)

-----------------------------------------------------------------------------
(***************************************************************************)
(* fix_path and utf8.  A Python 2 string is a byte string (str) or a       *)
(* character string (unicode): [str, s], s the sequence of its bytes or    *)
(* characters.  "xFF" stands for the byte 0xFF in a str, which is not      *)
(* valid UTF-8 wherever it stands, and for the character U+00FF in a       *)
(* unicode string.                                                         *)
(***************************************************************************)
BAD_FILENAME_CHARS == {":", "*", "?", "\"", "<", ">", "|"}

MaxPathLen == 2
PathChars == BAD_FILENAME_CHARS \cup {"-", "a", "/", "xFF"}
PyStrings == [str : BOOLEAN, s : UNION {[1..n -> PathChars] : n \in 0..MaxPathLen}]

\* s.replace(ch, '-')
Replace(s, ch) == [k \in 1..Len(s) |-> IF s[k] = ch THEN "-" ELSE s[k]]

\* for ch in chars: s = s.replace(ch, '-')
RECURSIVE ReplaceEach(_, _)
ReplaceEach(s, chars) ==
    IF chars = {} THEN s
    ELSE LET ch == CHOOSE c \in chars : TRUE
         IN ReplaceEach(Replace(s, ch), chars \ {ch})

\* utf8: unicode(path, encoding='utf-8', errors='ignore') of a str, which drops
\* the bytes that are not valid UTF-8; a unicode string is returned as it is
Utf8(p) ==
    IF p.str
    THEN [str |-> FALSE, s |-> SelectSeq(p.s, LAMBDA c : c # "xFF")]
    ELSE p

\* fix_path
FixPath(p) ==
    IF \E k \in DOMAIN p.s : p.s[k] \in BAD_FILENAME_CHARS
    THEN Utf8([str |-> p.str, s |-> ReplaceEach(p.s, BAD_FILENAME_CHARS)])
    ELSE Utf8(p)

\* a call fix_path(p); the argument and the result are recorded
FixPathCall(p) ==
    /\ call = Idle
    /\ lastOp' = [NoOp EXCEPT !.op = "fix_path", !.path = p, !.newpath = FixPath(p)]
    /\ UNCHANGED <<dev, nextId, faults, flaky, open_device, nativeOpen, devices, tree,
                   openfiles, created, fds, scratch, nextScratch, call, rt, lru,
                   tempdir, STOPPED, recency>>

\* SpecFixPath: fix_path applied to every string of PyStrings
NextFixPath == \E p \in PyStrings : FixPathCall(p)

SpecFixPath == Init /\ [][NextFixPath]_vars

-----------------------------------------------------------------------------
(***************************************************************************)
(* Properties.                                                             *)
(***************************************************************************)
\* C1: round-trip identity.  When create(f), write(B, 0, fh), release(f, fh)
\* and open(f, read-only) have returned success one after the other on a
\* device that answers every call, read(|B|, 0) on the handle open returned
\* gives exactly B.
RoundTripIdentity ==
    rt.stage = 4 =>
        ReadResult(openfiles, fds, scratch, Len(rt.B), 0, rt.fh)
            = [res |-> "OK", data |-> rt.B]

\* the four calls returned success for a non-empty B
RoundTripDone == rt.stage = 4 /\ rt.B # << >>

\* C2: cache coherence.  Right after unlink(p) returned success the next
\* getattr(p) reflects the device: the device holds no object at p and no
\* placeholder is recorded for p, so getattr(p) returns ENOENT.
UnlinkThenGetattr ==
    (call = Idle /\ lastOp.op = "unlink" /\ lastOp.res = "OK"
        /\ DevObjects(dev, lastOp.path) = {} /\ lastOp.path \notin created)
    => GetattrResult(tree, dev, open_device, created, lastOp.path).ret.res = "ENOENT"

\* unlink(p) of a file in the storage root returned success
UnlinkedInRoot ==
    call = Idle /\ lastOp.op = "unlink" /\ lastOp.res = "OK" /\ Len(lastOp.path) = 2

\* C3: no path resolution consults the child list of a folder that was not
\* listed from the device since its must_refresh flag was last set, the
\* storage root folder included.
ListsFreshWhenConsulted ==
    open_device => \A p \in AllPaths : ~GetPath(tree, dev, open_device, p).stale

\* the storage root folder is marked and its lists are as they were
RootMarked == tree[RootPath].must_refresh /\ ~tree[RootPath].listed

\* C4: when the upload of release on a writable handle did not succeed (the
\* last send returned non-zero or timed out), release returns an error: if
\* release returned 0 after a transfer, the last thing the transfer did was a
\* send that succeeded.
ReleaseFailsWhenSendFails ==
    (call = Idle /\ lastOp.op = "release" /\ lastOp.res = "OK" /\ lastOp.log # << >>)
    => lastOp.log[Len(lastOp.log)] = "try_ok"

\* the recurse level of the running transfer is 0, 1 or 2
RecurseBounded == call # Idle => call.recurse \in 0..2

\* a transfer that returned EINTR left the device closed with no native handle
\* open (the reopen failed), or open with one native handle after a reopen
\* that succeeded
EintrDeviceState ==
    (call = Idle /\ lastOp.res = "EINTR") =>
        IF lastOp.log[Len(lastOp.log)] = "open_fail"
        THEN ~open_device /\ nativeOpen = 0
        ELSE /\ open_device /\ nativeOpen = 1
             /\ \E i \in 1..Len(lastOp.log) : lastOp.log[i] = "open_ok"

\* the recurse level does not decrease while the transfer runs
RecurseGrows == (call # Idle /\ call' # Idle) => call'.recurse >= call.recurse

\* C5: recovery monotonicity.  The recurse level of a transfer is in 0..2 and
\* never decreases while the transfer runs; and when a transfer has returned
\* EINTR the device is closed, or open through a reopen that succeeded.
RecoveryMonotone == [](RecurseBounded /\ EintrDeviceState) /\ [][RecurseGrows]_vars

\* a transfer returned EINTR after its third attempt, the device reopened twice
EintrAtLevelTwo ==
    /\ call = Idle /\ lastOp.res = "EINTR"
    /\ lastOp.log[Len(lastOp.log)] # "open_fail"
    /\ open_device

\* the first "close" of the log l is at i
FirstCloseAt(l, i) == l[i] = "close" /\ \A j \in 1..(i - 1) : l[j] # "close"

\* C6: the recovery sequence.  In copy_from and copy_to the reopen that follows
\* the first close of the transfer (level 0) does not read the device list
\* again.
LevelZeroNoRescan ==
    (call # Idle /\ call.xfer # "mkdir") =>
        \A i \in 1..(Len(call.log) - 1) :
            FirstCloseAt(call.log, i) => call.log[i + 1] # "rescan"

\* C7: release destroys the handle.  When release(path, fh) has returned, fh
\* is no key of the open-handle table.
ReleaseDestroysHandle ==
    (call = Idle /\ lastOp.op = "release") => lastOp.fh \notin DOMAIN openfiles

\* C8: a failed open cleans up.  When open(path, flags) has failed, the
\* descriptor of the scratch file the call made is closed.
FailedOpenClosesScratch ==
    (call = Idle /\ lastOp.op = "open" /\ lastOp.res # "OK")
    => lastOp.fh \notin DOMAIN fds

\* a step in which open(path, flags) returns without a transfer
OpenReturned ==
    call = Idle /\ call' = Idle /\ lastOp'.op = "open" /\ lastOp' # lastOp

\* C9: open fails with ENOENT when get_path finds nothing at the path and no
\* placeholder is recorded for it, whatever the flags, and with EISDIR when
\* the path resolves to a directory.
OpenMissingOrDirectory ==
    [][OpenReturned =>
        /\ (GetPath(tree, dev, open_device, lastOp'.path).en.k = "none"
              /\ ~GetPath(tree, dev, open_device, lastOp'.path).exc
              /\ lastOp'.path \notin created) => lastOp'.res = "ENOENT"
        /\ GetPath(tree, dev, open_device, lastOp'.path).en.k = "dir"
              => lastOp'.res = "EISDIR"]_vars

\* write on a handle that is read-only or unknown returns EBADF and leaves the
\* scratch files as they are, for every handle, data and offset
WriteRefused ==
    \A fh \in Fhs, data \in Contents, offset \in 0..MaxLen :
        (fh \notin DOMAIN openfiles \/ openfiles[fh].readonly)
        => WriteResult(openfiles, fds, scratch, data, offset, fh)
               = [sc |-> scratch, res |-> "EBADF"]

\* a step in which write returns EBADF changes no scratch file
RefusedWriteStep ==
    (call = Idle /\ call' = Idle /\ lastOp'.op = "write" /\ lastOp'.res = "EBADF")
    => scratch' = scratch

\* C10: write(path, data, offset, fh) returns EBADF when fh is a handle opened
\* read-only or is not in the open-handle table, and the contents of every
\* scratch file are unchanged then.
WriteOnReadOnlyHandle == []WriteRefused /\ [][RefusedWriteStep]_vars

\* write through a read-only handle whose descriptor is open returned EBADF
WroteReadOnly ==
    /\ call = Idle /\ lastOp.op = "write" /\ lastOp.res = "EBADF"
    /\ lastOp.fh \in DOMAIN openfiles /\ openfiles[lastOp.fh].readonly
    /\ lastOp.fh \in DOMAIN fds

\* a step in which handler op returns without a transfer
Returned(op) ==
    call = Idle /\ call' = Idle /\ lastOp'.op = op /\ lastOp' # lastOp

\* C11: release(path, fh) with an fh that is not in the open-handle table
\* returns EBADF and changes neither the path cache, nor the created
\* placeholders, nor the device.
ReleaseUnknownHandle ==
    [][(Returned("release") /\ lastOp'.fh \notin DOMAIN openfiles)
        => (lastOp'.res = "EBADF" /\ UNCHANGED <<tree, created, dev>>)]_vars

\* C14: getattr(path) returns the attributes or ENOENT for every path, a path
\* whose first component names no storage included.
GetattrMissingIsEnoent ==
    call = Idle =>
        \A p \in AllPaths :
            GetattrResult(tree, dev, open_device, created, p).ret.res \in {"OK", "ENOENT"}

\* C15: once recovery could not reopen the device (no device is open), every
\* later create, open or mkdir returns EIO.
ClosedDeviceGivesEio ==
    [][(~open_device /\ (Returned("create") \/ Returned("open") \/ Returned("mkdir")))
        => lastOp'.res = "EIO"]_vars

\* what mkdir has to return when it finds r at the path and pr at its parent
MkdirRefusal(r, pr, res) ==
    /\ (~r.exc /\ r.en.k # "none") => res = "EEXIST"
    /\ ((r.exc \/ r.en.k = "none") /\ (pr.exc \/ ~IsDirectory(pr.en))) => res = "ENOTDIR"

\* C16: mkdir(path) returns EEXIST when the path resolves to a folder or a
\* file, and ENOTDIR when the parent of the path does not resolve to a
\* directory; the device is left as it is in both cases.
MkdirExistsOrNotDir ==
    [][Returned("mkdir")
        => /\ MkdirRefusal(GetPath(tree, dev, open_device, lastOp'.path),
                           GetPath(tree, dev, open_device, DirName(lastOp'.path)),
                           lastOp'.res)
           /\ dev' = dev]_vars

\* what unlink has to return when it finds r at the path
UnlinkRefusal(r, res) ==
    /\ (r.exc \/ r.en.k = "none") => res = "ENOENT"
    /\ (~r.exc /\ IsDirectory(r.en)) => res = "EISDIR"

\* C17: unlink(path) returns EISDIR when the path resolves to a directory and
\* ENOENT when it does not resolve, and sends no delete to the device then.
UnlinkDirOrMissing ==
    [][Returned("unlink")
        => /\ UnlinkRefusal(GetPath(tree, dev, open_device, lastOp'.path), lastOp'.res)
           /\ (lastOp'.res \in {"ENOENT", "EISDIR"} => dev' = dev)]_vars

\* the handle fh is live and writable: in the open-handle table, its
\* descriptor open on the scratch file of the entry
LiveWriter(fh) ==
    /\ fh \in DOMAIN openfiles /\ ~openfiles[fh].readonly
    /\ fh \in DOMAIN fds /\ fds[fh] = openfiles[fh].path

\* C20: at most one live writable handle refers to any remote path.
OneWriterPerPath ==
    \A f1 \in Fhs, f2 \in Fhs :
        (f1 # f2 /\ LiveWriter(f1) /\ LiveWriter(f2))
        => openfiles[f1].mtp_path # openfiles[f2].mtp_path

RangeOf(q) == {q[k] : k \in 1..Len(q)}

\* C13: no stale children.  When rmdir(d) has returned 0, a readdir of d's parent
\* made next lists no entry named basename(d): for d directly under the storage
\* root and for nested d, also when d was the only child of its parent.

RmdirThenReaddir ==
    (call = Idle /\ lastOp.op = "rmdir" /\ lastOp.res = "OK")
    => /\ ReaddirResult(tree, dev, open_device, DirName(lastOp.path)).res = "OK"
       /\ BaseName(lastOp.path)
            \notin RangeOf(ReaddirResult(tree, dev, open_device, DirName(lastOp.path)).names)

\* rmdir returned 0 for a nested directory that was its parent's only child
RmdirOnlyChild ==
    /\ call = Idle /\ lastOp.op = "rmdir" /\ lastOp.res = "OK"
    /\ Len(lastOp.path) = 3
    /\ DevObjects(dev, DirName(lastOp.path)) # {}
    /\ \A i \in DevObjects(dev, DirName(lastOp.path)) : Children(dev, i) = {}

\* the one object the device holds at path p is a regular file
DevFileAt(d, p) == Cardinality(DevObjects(d, p)) = 1 /\ \A i \in DevObjects(d, p) : ~d[i].isdir

DevDataAt(d, p) == d[CHOOSE i \in DevObjects(d, p) : TRUE].data

\* what open then read of path p would fetch: the data of the object the entry
\* that get_path(p) finds names
EntryData(r, d) ==
    IF ~r.exc /\ r.en.k = "file" /\ r.en.id \in DOMAIN d THEN <<d[r.en.id].data>> ELSE << >>

RenamedFile ==
    /\ Returned("rename") /\ lastOp'.res = "OK"
    /\ DevFileAt(dev, lastOp'.path)
    /\ DevObjects(dev, lastOp'.newpath) = {}
    /\ GetattrResult(tree, dev, open_device, created, lastOp'.path).ret.kind = "file"
    /\ GetattrResult(tree, dev, open_device, created, lastOp'.newpath).ret.res = "ENOENT"

\* C12: when rename(old, new) of a regular file has returned 0, new not existing
\* before, the next getattr(old) returns ENOENT, the next getattr(new) returns a
\* regular file of the size old had, and open and read of new return the bytes old
\* had: for files directly under the storage root and for files in nested folders.
RenameMovesFile ==
    [][RenamedFile
        => /\ GetattrResult(tree', dev', open_device', created', lastOp'.path).ret.res = "ENOENT"
           /\ GetattrResult(tree', dev', open_device', created', lastOp'.newpath).ret
                = [res |-> "OK", kind |-> "file", size |-> Len(DevDataAt(dev, lastOp'.path))]
           /\ EntryData(GetPath(tree', dev', open_device', lastOp'.newpath), dev')
                = <<DevDataAt(dev, lastOp'.path)>>]_vars

\* C18: mknod(path, mode, dev) returns EINVAL and creates nothing whenever the file
\* type of mode is not that of a regular file (directory, character or block
\* device, FIFO, symbolic link, socket); for a regular file it leaves a zero-byte
\* file at path, as create followed by release does.
MknodRegularOnly ==
    (call = Idle /\ lastOp.op = "mknod")
    => IF lastOp.mode # S_IFREG THEN lastOp.res = "EINVAL"
       ELSE lastOp.res = "OK"
            => /\ DevObjects(dev, lastOp.path) # {}
               /\ \A i \in DevObjects(dev, lastOp.path) :
                    ~dev[i].isdir /\ dev[i].data = << >>

\* C19: an LRU created with capacity n >= 1 stores at most n keys after any
\* sequence of __setitem__, __getitem__, get, __delitem__ and pop calls, and
\* setting a key that is already present never evicts another key.
LruBounded ==
    /\ lru.size >= 1
    /\ Cardinality(LruKeySet(lru)) = Len(lru.map)
    /\ Len(lru.map) <= lru.size
    /\ \A k \in LruKeySet(lru), v \in LruVals :
        /\ LruKeySet(LruSetItem(lru, k, v).lru) = LruKeySet(lru)
        /\ LruSetItem(lru, k, v).evicted = << >>

\* a __setitem__ call on a full LRU of capacity 2 or more evicted the oldest key
LruEvicted ==
    /\ lastOp.op = "LRU.__setitem__" /\ lastOp.log # << >>
    /\ lru.size >= 2 /\ Len(lru.map) = lru.size
    /\ lastOp.log[1] \notin LruKeySet(lru)


\* C22: when destroy has returned, no device is open and the native device handle
\* is released, no handle of the open-handle table is an open descriptor, and
\* neither the scratch directory nor any scratch file exists.
DestroyReleasesAll ==
    call = Unmounted =>
        /\ ~open_device
        /\ nativeOpen = 0
        /\ \A fh \in DOMAIN openfiles : fh \notin DOMAIN fds
        /\ ~tempdir
        /\ DOMAIN scratch = {}

\* destroy has returned and the open-handle table holds a handle that was created
\* and never released
DestroyedWithHandles ==
    /\ call = Unmounted
    /\ \E fh \in DOMAIN openfiles : ~openfiles[fh].readonly
    /\ lastOp.op = "destroy"

\* C23: once SIGTERM or SIGQUIT has been received while mounted, the stopped flag
\* is set and the bridge eventually shuts down (it is unmounted, the device is
\* closed, the scratch directory is removed) with no further event from outside.
SignalShutsDown ==
    /\ [][SignalHandler => STOPPED']_vars
    /\ STOPPED ~> (call = Unmounted /\ ~open_device /\ ~tempdir)

\* C25: readdir(path) on a path that resolves to a regular file fails with
\* ENOTDIR and returns no listing.
ReaddirFileIsEnotdir ==
    call = Idle =>
        \A path \in StoragePaths :
            GetPath(tree, dev, open_device, path).en.k = "file" =>
                /\ ReaddirResult(tree, dev, open_device, path).res = "ENOTDIR"
                /\ ReaddirResult(tree, dev, open_device, path).names = << >>

\* C26: fix_path is idempotent, fix_path(fix_path(p)) = fix_path(p); its result
\* contains none of the characters : * ? " < > | and every other character of p
\* is kept in place.
FixPathIdempotentAndClean ==
    lastOp.op = "fix_path" =>
        /\ FixPath(lastOp.newpath) = lastOp.newpath
        /\ \A k \in DOMAIN lastOp.newpath.s :
               lastOp.newpath.s[k] \notin BAD_FILENAME_CHARS
        /\ Len(lastOp.newpath.s) = Len(lastOp.path.s)
        /\ \A k \in DOMAIN lastOp.path.s :
               lastOp.path.s[k] \notin BAD_FILENAME_CHARS =>
                   lastOp.newpath.s[k] = lastOp.path.s[k]

\* the handle fh is open: create or open returned it and release was not called
\* on it since; it is in the open-handle table and its descriptor is open on the
\* scratch file of the entry
LiveHandle(fh) ==
    /\ fh \in DOMAIN openfiles
    /\ fh \in DOMAIN fds /\ fds[fh] = openfiles[fh].path

\* the bytes a read through the handle fh returns
BytesThrough(of, f, sc, fh) == ReadResult(of, f, sc, MaxLen, 0, fh).data

\* C21: handle isolation.  Two handles that are open at the same time have
\* distinct descriptors and distinct scratch files, and a write through one
\* handle does not change the bytes read through another.
HandleIsolation ==
    /\ [](\A f1 \in Fhs, f2 \in Fhs :
            (f1 # f2 /\ LiveHandle(f1) /\ LiveHandle(f2))
            => /\ fds[f1] # fds[f2]
               /\ openfiles[f1].path # openfiles[f2].path)
    /\ [][Returned("write") =>
            \A g \in Fhs \ {lastOp'.fh} :
                LiveHandle(g) =>
                    BytesThrough(openfiles', fds', scratch', g)
                        = BytesThrough(openfiles, fds, scratch, g)]_vars

\* a write through one of two open handles has returned success after the other
\* handle's scratch file was written
WroteBesideOpenHandle ==
    /\ lastOp.op = "write" /\ lastOp.res = "OK" /\ LiveHandle(lastOp.fh)
    /\ \E g \in Fhs \ {lastOp.fh} : LiveHandle(g) /\ scratch[fds[g]] # << >>

\* the native call of the attempt logged at l[i] returned non-zero
NonZeroAt(l, i) == l[i] \in {"try_err", "try_timeout", "try_partial"}

\* the attempt logged at l[i] of a transfer that has returned with res went into
\* the recovery code: the device was closed next, or the transfer gave up with
\* EINTR at the last level
RecoveryAt(l, i, res) ==
    \/ i + 1 <= Len(l) /\ l[i + 1] = "close"
    \/ i + 2 <= Len(l) /\ l[i + 1] = "check_fail" /\ l[i + 2] = "close"
    \/ res = "EINTR" /\ i = Len(l)
    \/ res = "EINTR" /\ i + 1 = Len(l) /\ l[i + 1] = "check_fail"

\* the liveness probe was made after the attempt logged at l[i] and failed
ProbeFailedAt(l, i) == i + 1 <= Len(l) /\ l[i + 1] = "check_fail"

\* C27: in copy_from, copy_to and mkdir, when the native transport call has
\* returned non-zero, recovery (close, reopen, retry) is entered exactly when the
\* liveness probe fails, whether or not the alarm fired.
RecoveryIffProbeFails ==
    call = Idle =>
        \A i \in 1..Len(lastOp.log) :
            NonZeroAt(lastOp.log, i) =>
                (RecoveryAt(lastOp.log, i, lastOp.res) <=> ProbeFailedAt(lastOp.log, i))

\* the log of the transfer that is running, or of the one that returned last
XferLog == IF call = Idle THEN lastOp.log ELSE call.log

IsAttempt(e) == e \in {"try_ok", "try_err", "try_timeout", "try_partial", "try_late"}

\* l[j] is the first attempt logged after l[i]
NextAttempt(l, i, j) ==
    /\ i < j /\ IsAttempt(l[j])
    /\ \A k \in (i + 1)..(j - 1) : ~IsAttempt(l[k])

\* C28: a transfer that timed out is not retried in place.  In copy_from and
\* copy_to, between an attempt that timed out and the next attempt of the
\* transfer the device was closed and, after that, opened with success; with no
\* reopen that succeeded there is no further attempt.
NoRetryInPlace ==
    \A i \in 1..Len(XferLog), j \in 1..Len(XferLog) :
        (XferLog[i] \in {"try_timeout", "try_partial", "try_late"}
         /\ NextAttempt(XferLog, i, j))
        => \E c \in (i + 1)..(j - 1), o \in (i + 1)..(j - 1) :
               c < o /\ XferLog[c] = "close" /\ XferLog[o] = "open_ok"

\* a transfer has returned that timed out, failed to reopen the device at the
\* first level, and made its next attempt after the second close and reopen
RetriedAfterSecondReopen ==
    /\ call = Idle /\ lastOp.op \in {"open", "release"}
    /\ \E i \in 1..Len(lastOp.log), j \in 1..Len(lastOp.log) :
           /\ lastOp.log[i] \in {"try_timeout", "try_partial", "try_late"}
           /\ NextAttempt(lastOp.log, i, j)
           /\ \E k \in (i + 1)..(j - 1) : lastOp.log[k] = "open_fail"

ReleaseUploaded ==
    /\ call # Idle /\ call.op = "release" /\ call.local \in DOMAIN scratch
    /\ call' = Idle /\ lastOp'.res = "OK"

\* C29: when release of a writable handle on p has returned 0, the device holds
\* exactly one object named basename(p) in p's parent folder, a file whose
\* content is the scratch content at release time, and no other object is at p;
\* also when the delete of the old object failed.
ReleaseStoresOneObject ==
    [][ReleaseUploaded =>
          /\ DevFileAt(dev', call.path)
          /\ DevDataAt(dev', call.path) = scratch[call.local]]_vars

\* C30: when release of a writable handle that create(p) made has returned 0, p
\* is not in the created set, the scratch file is gone, no folder lists an entry
\* with item id -9999 for p, and p resolves to a file entry with the id the
\* device assigned (>= 0) whose size is the number of bytes written.
ReleaseSettlesCreated ==
    [][(ReleaseUploaded /\ call.path \in created) =>
          /\ call.path \notin created'
          /\ call.local \notin DOMAIN scratch'
          /\ \A q \in DOMAIN tree' : \A k \in 1..Len(tree'[q].files) :
                 tree'[q].files[k].id = -9999 =>
                     Append(q, tree'[q].files[k].name) # call.path
          /\ GetPath(tree', dev', open_device', call.path).en.k = "file"
          /\ GetPath(tree', dev', open_device', call.path).en.id >= 0
          /\ GetPath(tree', dev', open_device', call.path).en.len
               = Len(scratch[call.local])]_vars

\* C37: when path resolution returns an entry for the path p, the entry's own
\* path is p; it is never the entry of a proper prefix of p (for a file /S/a,
\* /S/a/x resolves to nothing).
ResolvesToOwnPath ==
    call = Idle =>
        \A path \in StoragePaths :
            GetPath(tree, dev, open_device, path).en.k \in {"file", "dir"} =>
                GetPath(tree, dev, open_device, path).en.p = path

\* C31: when rename(old, new) has returned success, the folder objects of old's
\* parent and of new's parent are marked must_refresh and old is not a key of
\* the path cache, also when old is a folder that was resolved before.
RenameMarksAndForgets ==
    [][(Returned("rename") /\ lastOp'.res = "OK") =>
          /\ tree'[DirName(lastOp'.path)].must_refresh
          /\ tree'[DirName(lastOp'.newpath)].must_refresh
          /\ lastOp'.path \notin DOMAIN tree']_vars

\* p is a proper prefix of q
ProperPrefix(p, q) == Len(p) < Len(q) /\ SubSeq(q, 1, Len(p)) = p

\* rmdir(d) has returned 0 in this step, or rename(d, e) of a folder d
FolderGone ==
    \/ Returned("rmdir") /\ lastOp'.res = "OK"
    \/ /\ Returned("rename") /\ lastOp'.res = "OK"
       /\ GetPath(tree, dev, open_device, lastOp'.path).en.k = "dir"

\* C38: when rmdir(d) has returned 0, or rename(d, e) of a folder d has returned
\* success, every path below d resolves to nothing, also when the path was
\* resolved and put in the path cache before.
NothingBelowGoneFolder ==
    [][FolderGone =>
          \A path \in StoragePaths :
              ProperPrefix(lastOp'.path, path) =>
                  GetPath(tree', dev', open_device', path).en.k = "none"]_vars

\* the names in the child list of the folder object f, directories first
ChildNames(f) == NamesOf(f.dirs) \o NamesOf(f.files)

\* C32: the child list of every folder object holds at most one entry, folder or
\* file, of any name; create(p) on a path that resolves to a file listed from
\* the device adds no second entry named basename(p).
ChildNamesUnique ==
    \A q \in DOMAIN tree :
        \A i \in 1..Len(ChildNames(tree[q])), j \in 1..Len(ChildNames(tree[q])) :
            i # j => ChildNames(tree[q])[i] # ChildNames(tree[q])[j]

\* C33: at most one native device handle obtained from open is unreleased, at
\* every step of a recovery cycle too: MTP.open is called only when no handle
\* is unreleased, and an open that failed leaves none.
OneNativeHandle ==
    /\ [](nativeOpen \in 0..1 /\ (open_device <=> nativeOpen = 1))
    /\ [][(call # Idle /\ call.stage = "reopen") =>
             /\ nativeOpen = 0
             /\ ~open_device' => nativeOpen' = 0]_vars

\* recovery has closed the device twice and the second reopen succeeded
ReopenedTwice ==
    /\ call # Idle /\ call.stage = "attempt" /\ call.recurse = 2
    /\ open_device /\ nativeOpen = 1
    /\ \E i \in 1..Len(call.log) : call.log[i] = "open_fail"

\* the keys of the LRU object in the order of its map
LruKeySeq(l) == [i \in 1..Len(l.map) |-> l.map[i].k]

\* C34: the LRU class refines a strict LRU map.  Its keys are those of the
\* reference, in the order of their last use; a __setitem__ of a new key on a
\* full object evicts the key whose last __getitem__, get that found it or
\* __setitem__ is oldest; __contains__, __iter__, __len__ and a get that
\* misses leave the order as it is.
LruRefinesStrictLru ==
    /\ [](LruKeySeq(lru) = recency)
    /\ [][(lastOp' # lastOp /\ lastOp'.op = "LRU.__setitem__" /\ lastOp'.log # << >>)
             => lastOp'.log = <<Head(recency)>>]_vars
    /\ [][(lastOp' # lastOp
           /\ \/ lastOp'.op \in {"LRU.__contains__", "LRU.__iter__", "LRU.__len__"}
              \/ lastOp'.op = "LRU.get" /\ lastOp'.path[1] \notin LruKeySet(lru))
             => lru' = lru]_vars

\* a __setitem__ of a new key on a full object has evicted a key that was not
\* the first to be set: a get moved the first one behind it
EvictedAfterGet ==
    /\ lastOp.op = "LRU.__setitem__" /\ lastOp.log # << >>
    /\ lru.size = 2 /\ lastOp.log = <<"b">>
    /\ LruKeySeq(lru) = <<"a", "c">>

\* the native transfer call of the attempt logged as e returned 0
NativeReturnedZero(e) == e \in {"try_ok", "try_late"}

\* C40: however the SIGALRM handler falls into copy_from and copy_to, an
\* attempt whose native call returned 0 is the last step of the transfer: the
\* device is neither closed nor reopened after it, also when the alarm fired
\* after the native call returned and before it was cancelled, and the
\* operation does not return EINTR or EIO.
LateAlarmIsHarmless ==
    \A i \in 1..Len(XferLog) :
        NativeReturnedZero(XferLog[i])
        => /\ \A j \in (i + 1)..Len(XferLog) :
                  XferLog[j] \notin {"close", "rescan", "open_ok", "open_fail"}
           /\ (call = Idle => lastOp.res \notin {"EINTR", "EIO"})

\* the transfer whose log is l made an attempt that the alarm cut off
RetriedAfterTimeout(l) ==
    \E i \in 1..Len(l) : l[i] \in {"try_timeout", "try_partial", "try_late"}

\* the bytes of the device object the tree entry en stands for
RemoteBytes(en) == IF en.k = "file" THEN DevData(dev', en.id) ELSE << >>

\* C39: when open(path) returns a handle after copy_from went through one or
\* two recovery retries, the scratch file of the handle holds exactly the bytes
\* of the remote object: nothing an aborted attempt wrote is left before or
\* after them.
RetriedOpenFetchesExactly ==
    [][(/\ call # Idle /\ call.op = "open" /\ call' = Idle
        /\ lastOp'.res = "OK" /\ RetriedAfterTimeout(lastOp'.log)
        /\ GetPath(tree', dev', open_device', call.path).en.k = "file")
          => /\ call.local \in DOMAIN scratch'
             /\ scratch'[call.local]
                  = RemoteBytes(GetPath(tree', dev', open_device', call.path).en)]_vars

\* what a following open and read of path find on the device
ReadBack(path) == RemoteObject(dev', GetPath(tree', dev', open_device', path).en)

\* utimens returns in this step, from the transfer in `call`
UtimensXferReturns == call # Idle /\ call.op = "utimens" /\ call' = Idle

\* utimens(path) on a directory returns in this step
UtimensOnDirectory ==
    /\ call = Idle /\ call' = Idle /\ lastOp' # lastOp /\ lastOp'.op = "utimens"
    /\ IsDirectory(GetPath(tree, dev, open_device, lastOp'.path).en)

\* C35: utimens on a regular file preserves its content.  When it returns 0, a
\* following open and read of the path find the bytes the object held before
\* the call; when the download fails, the remote object is neither deleted nor
\* replaced.  utimens on a directory changes nothing on the device, in the
\* scratch directory, in the handle table and the created placeholders, and
\* no path resolves to another entry than before.
UtimensPreservesContent ==
    [][/\ (UtimensXferReturns /\ lastOp'.res = "OK")
            => /\ ReadBack(call.path).there
               /\ ReadBack(call.path).data = call.before.data
       /\ (UtimensXferReturns /\ call.xfer = "from")
            => /\ call.before.id \in DOMAIN dev'
               /\ dev'[call.before.id] = dev[call.before.id]
               /\ dev' = dev
       /\ UtimensOnDirectory
            => /\ UNCHANGED <<dev, scratch, fds, openfiles, created, nextScratch>>
               /\ \A path \in StoragePaths :
                      GetPath(tree', dev', open_device', path).en
                        = GetPath(tree, dev, open_device, path).en]_vars

\* C36: between operations every scratch file is the scratch file of exactly
\* one entry of the open-handle table: truncate on a path that is not open and
\* utimens leave none of theirs behind, whatever they return, and neither do a
\* failed create or open.
ScratchFilesOwned ==
    call = Idle
    => \A local \in DOMAIN scratch :
           Cardinality({fh \in DOMAIN openfiles : openfiles[fh].path = local}) = 1

=============================================================================
